---- MODULE Spec2Model ----
(***************************************************************************)
(* Model of msg-ai: the provider adapters (BaseProvider and its six        *)
(* subclasses), the ProviderRegistry, the per-adapter model-list cache,   *)
(* the chat / streamChat protocol, withRetry, the list-providers           *)
(* command's fan-out over fetchAvailableModels, the chat command and       *)
(* handleChatError.                                                        *)
(*                                                                         *)
(* JavaScript values are modelled as follows: `undefined` is the string    *)
(* Undefined, strings are TLA+ strings, arrays are sequences, numbers are  *)
(* integers.  Truthy(v) is JavaScript's ToBoolean on the values used here. *)
(***************************************************************************)
EXTENDS Integers, Sequences, FiniteSets, TLC

VARIABLES
  env,             \* process.env: environment variable name -> value
  providers,       \* ProviderRegistry.providers: the Map's entries, insertion order
  apiKey,          \* BaseProvider.apiKey, per adapter
  client,          \* <Provider>.client, per adapter (lazily built handle)
  cachedModels,    \* <Provider>.cachedModels, per adapter
  modelsCacheTime, \* <Provider>.modelsCacheTime, per adapter
  now,             \* Date.now()
  pending,         \* model-list HTTP requests in flight
  netCalls,        \* number of model-list HTTP requests issued, per adapter
  call,            \* the chat / streamChat invocation in progress
  vendorCalls,     \* generateText / streamText calls issued so far
  wire,            \* the vendor's text stream as delivered so far
  yielded,         \* fragments streamChat has handed to its consumer
  retry,           \* the withRetry invocation in progress
  listing,         \* the ListProvidersCommand.execute invocation in progress
  command,         \* the ChatCommand.execute run of this process
  ret              \* outcome of the most recent operation

vars == <<env, providers, apiKey, client, cachedModels, modelsCacheTime, now,
          pending, netCalls, call, vendorCalls, wire, yielded, retry, listing,
          command, ret>>

----------------------------------------------------------------------------
(* JavaScript value helpers *)

Undefined == "<undefined>"

\* ToBoolean for strings and undefined: undefined and "" are falsy.
Truthy(v) == v # Undefined /\ v # ""

\* An optional number or object is <<>> when it is undefined and <<v>> when
\* it has the value v.
None == <<>>

Some(v) == <<v>>

\* ToBoolean for an optional number: undefined and 0 are falsy.
TruthyNum(v) == v # None /\ v[1] # 0

\* a || b, for an optional number a and a number b
OrNum(a, b) == IF TruthyNum(a) THEN a[1] ELSE b

\* What a call does: it returns a value or throws an error.
Return(v) == [raised |-> FALSE, value |-> v]

Throw(e) == [raised |-> TRUE, error |-> e]

----------------------------------------------------------------------------
(* Provider configurations *)

OpenAIConfig ==
  [name |-> "openai", displayName |-> "OpenAI", envKey |-> "OPENAI_API_KEY",
   alternativeEnvKeys |-> <<>>,
   defaultModel |-> "gpt-4o-mini",
   models |-> <<"gpt-4o", "gpt-4o-mini", "gpt-4-turbo", "gpt-4", "gpt-3.5-turbo">>]

GeminiConfig ==
  [name |-> "gemini", displayName |-> "Google Gemini", envKey |-> "GEMINI_API_KEY",
   alternativeEnvKeys |-> <<"GOOGLE_API_KEY">>,
   defaultModel |-> "gemini-2.5-pro",
   models |-> <<"gemini-2.5-pro", "gemini-2.5-flash", "gemini-2.5-flash-lite">>]

GrokConfig ==
  [name |-> "grok", displayName |-> "X.AI Grok", envKey |-> "XAI_API_KEY",
   alternativeEnvKeys |-> <<>>,
   defaultModel |-> "grok-4",
   models |-> <<"grok-4", "grok-3-mini", "grok-3">>]

DeepseekConfig ==
  [name |-> "deepseek", displayName |-> "DeepSeek", envKey |-> "DEEPSEEK_API_KEY",
   alternativeEnvKeys |-> <<>>,
   defaultModel |-> "deepseek-chat",
   models |-> <<"deepseek-chat", "deepseek-reasoner">>]

KimiConfig ==
  [name |-> "kimi", displayName |-> "Kimi (Moonshot)", envKey |-> "KIMI_API_KEY",
   alternativeEnvKeys |-> <<"MOONSHOT_API_KEY">>,
   defaultModel |-> "moonshot-v1-8k",
   models |-> <<"moonshot-v1-8k", "moonshot-v1-32k", "moonshot-v1-128k">>]

AnthropicConfig ==
  [name |-> "anthropic", displayName |-> "Anthropic (Claude)",
   envKey |-> "ANTHROPIC_API_KEY",
   alternativeEnvKeys |-> <<"CLAUDE_API_KEY">>,
   defaultModel |-> "claude-opus-4-1",
   models |-> <<"claude-opus-4-1", "claude-opus-4-0", "claude-sonnet-4-0",
                "claude-3-7-sonnet-latest", "claude-3-5-sonnet-latest",
                "claude-3-5-haiku-latest">>]

\* The adapter classes, named by class; one instance of each exists.
providerClasses ==
  <<"OpenAIProvider", "GeminiProvider", "GrokProvider", "DeepseekProvider",
    "KimiProvider", "AnthropicProvider">>

Range(s) == {s[i] : i \in 1..Len(s)}

Adapters == Range(providerClasses)

\* The ProviderConfig each adapter class passes to super(config).
Config(a) ==
  CASE a = "OpenAIProvider"    -> OpenAIConfig
    [] a = "GeminiProvider"    -> GeminiConfig
    [] a = "GrokProvider"      -> GrokConfig
    [] a = "DeepseekProvider"  -> DeepseekConfig
    [] a = "KimiProvider"      -> KimiConfig
    [] a = "AnthropicProvider" -> AnthropicConfig

----------------------------------------------------------------------------
(* Environment and credential resolution *)

EnvKeys ==
  UNION {{Config(a).envKey} \cup Range(Config(a).alternativeEnvKeys) : a \in Adapters}

\* The value a variable holds when it is set to a key: distinct per variable,
\* so that the variable a credential came from can be told from its value.
SecretOf(k) == "sk-" \o k

\* An environment in which the variables in S hold a key, those in E hold the
\* empty string and all others are unset.
EnvOf(S, E) ==
  [k \in EnvKeys |-> IF k \in S THEN SecretOf(k)
                     ELSE IF k \in E THEN "" ELSE Undefined]

\* loadApiKey, the loop over alternativeEnvKeys: cur is this.apiKey so far.
RECURSIVE LoadAlternatives(_, _, _, _)
LoadAlternatives(alts, i, cur, e) ==
  IF i > Len(alts) THEN cur
  ELSE LET v == e[alts[i]] IN
       IF Truthy(v) THEN v ELSE LoadAlternatives(alts, i + 1, v, e)

\* loadApiKey without the loop over the alternative variables.
loadApiKeyPrimaryOnly(cfg, e) == e[cfg.envKey]

loadApiKey(cfg, e) ==
  LET primary == e[cfg.envKey] IN
  IF ~Truthy(primary) /\ Len(cfg.alternativeEnvKeys) > 0
    THEN LoadAlternatives(cfg.alternativeEnvKeys, 1, primary, e)
    ELSE primary

\* An isAvailable that resolves the credential from the environment anew.
isAvailableRereadsEnv(a) == Truthy(loadApiKey(Config(a), env))

isAvailable(a) == Truthy(apiKey[a])

getAvailableModels(a) == Config(a).models

\* new ApiKeyMissingError(envKey, provider)
ApiKeyMissingError(envKey, provider) ==
  [name |-> "AiChatError", code |-> "API_KEY_MISSING",
   details |-> [envKey |-> envKey, provider |-> provider]]

\* assertAvailable without the availability test.
assertAvailableNoCheck(a) == Return(Undefined)

assertAvailable(a) ==
  IF ~isAvailable(a)
    THEN Throw(ApiKeyMissingError(Config(a).envKey, Config(a).displayName))
    ELSE Return(Undefined)

----------------------------------------------------------------------------
(* ProviderRegistry *)

\* A set that puts a new entry ahead of the existing ones.
MapSetInFront(m, k, v) ==
  IF \E i \in 1..Len(m) : m[i].key = k
    THEN [i \in 1..Len(m) |-> IF m[i].key = k THEN [key |-> k, adapter |-> v] ELSE m[i]]
    ELSE <<[key |-> k, adapter |-> v]>> \o m

\* Map.prototype.set: replace the value of an existing key in place, else
\* append a new entry.
MapSet(m, k, v) ==
  IF \E i \in 1..Len(m) : m[i].key = k
    THEN [i \in 1..Len(m) |-> IF m[i].key = k THEN [key |-> k, adapter |-> v] ELSE m[i]]
    ELSE Append(m, [key |-> k, adapter |-> v])

\* A lookup that also accepts an adapter's display name.
MapGetByNameOrLabel(m, k) ==
  IF \E i \in 1..Len(m) : m[i].key = k \/ Config(m[i].adapter).displayName = k
    THEN m[CHOOSE i \in 1..Len(m) :
             m[i].key = k \/ Config(m[i].adapter).displayName = k].adapter
    ELSE Undefined

\* Map.prototype.get: the value stored under exactly this key, or Undefined.
MapGet(m, k) ==
  IF \E i \in 1..Len(m) : m[i].key = k
    THEN m[CHOOSE i \in 1..Len(m) : m[i].key = k].adapter
    ELSE Undefined

RECURSIVE RegisterFrom(_, _)
RegisterFrom(i, m) ==
  IF i > Len(providerClasses) THEN m
  ELSE RegisterFrom(i + 1, MapSet(m, Config(providerClasses[i]).name, providerClasses[i]))

registerProviders == RegisterFrom(1, <<>>)

listAllProviders == [i \in 1..Len(providers) |-> providers[i].key]

\* new ProviderNotFoundError(requested, available)
ProviderNotFoundError(requested, available) ==
  [name |-> "AiChatError", code |-> "PROVIDER_NOT_FOUND",
   details |-> [requested |-> requested, available |-> available]]

\* registry.get(name): what it returns or throws.
get(name) ==
  LET provider == MapGet(providers, name) IN
  IF provider = Undefined
    THEN Throw(ProviderNotFoundError(name, listAllProviders))
    ELSE Return(provider)

\* registry.getFirstAvailable(): the first adapter in Map order that
\* isAvailable(), or null.
Null == "<null>"

RECURSIVE FirstAvailableFrom(_)
FirstAvailableFrom(i) ==
  IF i > Len(providers) THEN Null
  ELSE IF isAvailable(providers[i].adapter) THEN providers[i].adapter
  ELSE FirstAvailableFrom(i + 1)

\* A scan that keeps the last available adapter instead of the first.
getLastAvailable ==
  LET avail == {i \in 1..Len(providers) : isAvailable(providers[i].adapter)} IN
  IF avail = {} THEN Null
  ELSE providers[CHOOSE i \in avail : \A j \in avail : j <= i].adapter

getFirstAvailable == FirstAvailableFrom(1)

\* A listing that prefers an adapter's cached live list to its catalog.
listAvailableProvidersCached ==
  [i \in 1..Len(providers) |->
     LET a == providers[i].adapter IN
     [name |-> Config(a).name, displayName |-> Config(a).displayName,
      available |-> isAvailable(a),
      models |-> IF cachedModels[a] # None THEN cachedModels[a][1]
                 ELSE getAvailableModels(a)]]

listAvailableProviders ==
  [i \in 1..Len(providers) |->
     LET a == providers[i].adapter IN
     [name |-> Config(a).name, displayName |-> Config(a).displayName,
      available |-> isAvailable(a), models |-> getAvailableModels(a)]]

\* Names a caller may ask the registry for: the registered identifiers, and
\* display names, another spelling, an unknown name and the empty name.
LookupNames ==
  {Config(a).name : a \in Adapters}
    \cup {"OpenAI", "Google Gemini", "OPENAI", "nonexistent", ""}

----------------------------------------------------------------------------
(* Bounds of the model *)

MaxFragments == 2   \* fragments in one vendor generation
MaxTokens == 1      \* largest token count a vendor reports
MaxCalls == 2       \* vendor completion calls issued in one behaviour
MaxFetches == 2     \* live model-list requests issued in one behaviour
MaxHours == 2       \* cache windows the clock runs through
StartTime == 1000   \* Date.now() when the registry is constructed

----------------------------------------------------------------------------
(* The vendor: generateText / streamText of the AI SDK, seen from the adapter *)

Fragments == {"a", "b", "ab"}

RECURSIVE SeqsUpTo(_, _)
SeqsUpTo(S, n) ==
  IF n = 0 THEN {<<>>}
  ELSE LET shorter == SeqsUpTo(S, n - 1) IN
       shorter \cup {Append(q, x) : q \in shorter, x \in S}

\* What the vendor's model may generate for one request, fragment by fragment.
Generations == SeqsUpTo(Fragments, MaxFragments)

RECURSIVE Concat(_)
Concat(fr) == IF fr = <<>> THEN "" ELSE Head(fr) \o Concat(Tail(fr))

OptTokens == {None} \cup {Some(n) : n \in 0..MaxTokens}

\* result.usage as the SDK reports it: absent, or an object any of whose
\* counters may be missing.
VendorUsages ==
  {None} \cup
  {Some([inputTokens |-> i, outputTokens |-> o, totalTokens |-> t]) :
     i \in OptTokens, o \in OptTokens, t \in OptTokens}

\* generateText resolves once with the whole text, so how the vendor chunked
\* it is not visible to chat: generations of at most one fragment stand for
\* all of them there.
WholeTexts == {gen \in Generations : Len(gen) <= 1}

\* The resolved value of generateText for a generation and a usage report.
GenerateTextResult(gen, usage) == [text |-> Concat(gen), usage |-> usage]

\* Errors the vendor call can fail with: an API error carrying a status code
\* and a response body, and a connection-level error carrying neither.
ApiCallError ==
  [name |-> "AI_APICallError", message |-> "Too Many Requests",
   statusCode |-> Some(429),
   responseBody |-> "{\"error\":{\"message\":\"rate limited\"}}"]

ConnectionError ==
  [name |-> "TypeError", message |-> "fetch failed",
   statusCode |-> None, responseBody |-> Undefined]

VendorErrors == {ApiCallError, ConnectionError}

----------------------------------------------------------------------------
(* chat and streamChat *)

\* temperature is in tenths (7 is the CLI's default 0.7).
NoOptions ==
  [model |-> Undefined, temperature |-> None, maxTokens |-> None,
   systemPrompt |-> Undefined, reasoningEffort |-> Undefined, stream |-> FALSE]

\* ChatOptions a caller passes.
ChatOptionsSet ==
  {NoOptions,
   [NoOptions EXCEPT !.model = "custom-model"],
   [NoOptions EXCEPT !.temperature = Some(7), !.maxTokens = Some(256),
                     !.systemPrompt = "You are a pirate",
                     !.reasoningEffort = "high"]}

\* Message texts given on the command line.
CliMessages == {"hello"}

\* [{ role: 'user', content: message }]: the list ChatCommand.execute builds.
userMessages(message) == <<[role |-> "user", content |-> message]>>

\* Message lists a caller passes.
MessageLists == {userMessages(message) : message \in CliMessages}

\* A getClient that builds the client without asserting availability.
getClientNoAssert(a) ==
  IF client[a] = None
    THEN LET c == [provider |-> Config(a).name, apiKey |-> apiKey[a], instance |-> 1] IN
         [result |-> Return(c), client |-> Some(c)]
    ELSE [result |-> Return(client[a][1]), client |-> client[a]]

\* A getClient that constructs a fresh client on every call.
getClientRebuilds(a) ==
  IF assertAvailable(a).raised
    THEN [result |-> assertAvailable(a), client |-> client[a]]
    ELSE LET c == [provider |-> Config(a).name, apiKey |-> apiKey[a],
                   instance |-> IF client[a] = None THEN 1
                                ELSE client[a][1].instance + 1] IN
         [result |-> Return(c), client |-> Some(c)]

\* getClient: what it returns or throws, and this.client afterwards. The
\* handle records the credential it was built with and its ordinal among the
\* clients this adapter has constructed.
getClient(a) ==
  IF client[a] = None
    THEN IF assertAvailable(a).raised
           THEN [result |-> assertAvailable(a), client |-> client[a]]
           ELSE LET c == [provider |-> Config(a).name, apiKey |-> apiKey[a], instance |-> 1] IN
                [result |-> Return(c), client |-> Some(c)]
    ELSE [result |-> Return(client[a][1]), client |-> client[a]]

\* createModel(modelId?): the model handle, and this.client afterwards.
createModel(a, modelId) ==
  LET model == IF Truthy(modelId) THEN modelId ELSE Config(a).defaultModel
      c == getClient(a)
  IN IF c.result.raised
       THEN c
       ELSE [result |-> Return([client |-> c.result.value, modelId |-> model]),
             client |-> c.client]

\* options?.model || this.config.defaultModel
resolveModelId(a, options) ==
  IF Truthy(options.model) THEN options.model ELSE Config(a).defaultModel

\* The option handed to every vendor, whatever the adapter.
providerOptionsAnyAdapter(a, options) ==
  IF Truthy(options.reasoningEffort)
    THEN Some([openai |-> [reasoningEffort |-> options.reasoningEffort]])
    ELSE None

\* The providerOptions entry of the call options, present only when
\* options.reasoningEffort is set on the openai adapter.
providerOptions(a, options) ==
  IF Truthy(options.reasoningEffort) /\ Config(a).name = "openai"
    THEN Some([openai |-> [reasoningEffort |-> options.reasoningEffort]])
    ELSE None

\* Call options that ask the underlying call for no retries.
callOptionsNoRetries(model, messages, options, a) ==
  [model |-> model, messages |-> messages, temperature |-> options.temperature,
   maxRetries |-> 0, providerOptions |-> providerOptions(a, options)]

\* generateOptions / streamOptions: what chat and streamChat hand to the SDK.
callOptions(model, messages, options, a) ==
  [model |-> model, messages |-> messages, temperature |-> options.temperature,
   maxRetries |-> 3, providerOptions |-> providerOptions(a, options)]

\* A normalization that passes the vendor's total through without summing.
normalizeUsageNoSum(usage) ==
  IF usage # None
    THEN LET u == usage[1] IN
         Some([promptTokens |-> OrNum(u.inputTokens, 0),
               completionTokens |-> OrNum(u.outputTokens, 0),
               totalTokens |-> OrNum(u.totalTokens, 0)])
    ELSE None

\* The usage object of the ChatResponse.
normalizeUsage(usage) ==
  IF usage # None
    THEN LET u == usage[1] IN
         Some([promptTokens |-> OrNum(u.inputTokens, 0),
               completionTokens |-> OrNum(u.outputTokens, 0),
               totalTokens |-> OrNum(u.totalTokens,
                                     OrNum(u.inputTokens, 0) + OrNum(u.outputTokens, 0))])
    ELSE None

\* The ChatResponse chat builds from the resolved generateText result.
chatResponse(a, modelId, result) ==
  [content |-> result.text, provider |-> Config(a).name, model |-> modelId,
   usage |-> normalizeUsage(result.usage)]

IdleCall ==
  [op |-> "none", a |-> "", pc |-> "idle", messages |-> <<>>,
   options |-> NoOptions, modelId |-> "", request |-> None, generation |-> <<>>,
   vendorResult |-> None, attempts |-> 0]

ClosedWire == [status |-> "closed", delivered |-> 0, taken |-> 0, error |-> None]

NoRet == [op |-> "none", arg |-> "", result |-> Return(Undefined)]

RECURSIVE SumOver(_, _)
SumOver(f, S) ==
  IF S = {} THEN 0
  ELSE LET x == CHOOSE y \in S : TRUE IN f[x] + SumOver(f, S \ {x})

TotalVendorCalls == SumOver(vendorCalls, Adapters)

\* chat(messages, options), up to its await of generateText.
chatCalled(a, messages, options) ==
  LET avail == assertAvailable(a)
      modelId == resolveModelId(a, options)
      m == createModel(a, modelId)
      started == [IdleCall EXCEPT !.op = "chat", !.a = a, !.messages = messages,
                                  !.options = options, !.modelId = modelId]
  IN IF avail.raised
       THEN /\ call' = [started EXCEPT !.pc = "done", !.modelId = ""]
            /\ ret' = [op |-> "chat", arg |-> a, result |-> avail]
            /\ UNCHANGED <<client, vendorCalls>>
       ELSE IF m.result.raised
       THEN /\ call' = [started EXCEPT !.pc = "done"]
            /\ ret' = [op |-> "chat", arg |-> a, result |-> m.result]
            /\ client' = [client EXCEPT ![a] = m.client]
            /\ UNCHANGED vendorCalls
       ELSE /\ call' = [started EXCEPT
                          !.pc = "await", !.attempts = 1,
                          !.request = Some(callOptions(m.result.value, messages,
                                                       options, a))]
            /\ client' = [client EXCEPT ![a] = m.client]
            /\ vendorCalls' = [vendorCalls EXCEPT ![a] = @ + 1]
            /\ ret' = NoRet

\* A caller other than the chat command calls chat(messages, options).
ChatCall(a, messages, options) ==
  /\ call.pc = "idle"
  /\ TotalVendorCalls < MaxCalls
  /\ chatCalled(a, messages, options)
  /\ UNCHANGED <<command, retry, listing, env, providers, apiKey, cachedModels, modelsCacheTime, now,
                 pending, netCalls, wire, yielded>>

\* generateText resolves: chat returns the normalized ChatResponse.
ChatResolve(gen, usage) ==
  /\ call.op = "chat" /\ call.pc = "await"
  /\ call' = [call EXCEPT !.pc = "done",
                          !.vendorResult = Some(GenerateTextResult(gen, usage))]
  /\ ret' = [op |-> "chat", arg |-> call.a,
             result |-> Return(chatResponse(call.a, call.modelId,
                                            GenerateTextResult(gen, usage)))]
  /\ UNCHANGED <<command, retry, listing, env, providers, apiKey, client, cachedModels, modelsCacheTime,
                 now, pending, netCalls, vendorCalls, wire, yielded>>

\* The underlying call (generateText, or streamText before its first
\* fragment) makes call.attempts requests to the vendor: the first, and one
\* more after each failure for as long as the request's maxRetries allows.
\* The vendor errors modelled are the network and rate-limit failures the
\* underlying call retries.
retriesLeft == call.attempts < 1 + call.request[1].maxRetries

\* A request to the vendor fails and the underlying call sends it again.
VendorRetry ==
  /\ \/ call.op = "chat" /\ call.pc = "await"
     \/ /\ call.op = "streamChat" /\ call.pc = "streaming"
        /\ wire.status = "open" /\ wire.delivered = 0
  /\ retriesLeft
  /\ call' = [call EXCEPT !.attempts = @ + 1]
  /\ UNCHANGED <<command, retry, listing, env, providers, apiKey, client, cachedModels,
                 modelsCacheTime, now, pending, netCalls, vendorCalls, wire, yielded,
                 ret>>

\* generateText rejects, its retries used up: the error propagates out of chat.
ChatReject(e) ==
  /\ call.op = "chat" /\ call.pc = "await"
  /\ ~retriesLeft
  /\ call' = [call EXCEPT !.pc = "done"]
  /\ ret' = [op |-> "chat", arg |-> call.a, result |-> Throw(e)]
  /\ UNCHANGED <<command, retry, listing, env, providers, apiKey, client, cachedModels, modelsCacheTime,
                 now, pending, netCalls, vendorCalls, wire, yielded>>

\* A streamChat that checks the credential when it is called rather than
\* when it is first pulled.
StreamChatCallEager(a, messages, options) ==
  /\ call.pc = "idle"
  /\ TotalVendorCalls < MaxCalls
  /\ IF assertAvailable(a).raised
       THEN /\ call' = [IdleCall EXCEPT !.op = "streamChat", !.a = a, !.pc = "done",
                                        !.messages = messages, !.options = options]
            /\ ret' = [op |-> "streamChat", arg |-> a, result |-> assertAvailable(a)]
       ELSE /\ call' = [IdleCall EXCEPT !.op = "streamChat", !.a = a, !.pc = "created",
                                        !.messages = messages, !.options = options]
            /\ ret' = NoRet
  /\ UNCHANGED <<command, retry, listing, env, providers, apiKey, client, cachedModels, modelsCacheTime,
                 now, pending, netCalls, vendorCalls, wire, yielded>>

\* streamChat(messages, options): an async generator object is created; no
\* statement of the body runs until the consumer pulls.
StreamChatCall(a, messages, options) ==
  /\ call.pc = "idle"
  /\ TotalVendorCalls < MaxCalls
  /\ call' = [IdleCall EXCEPT !.op = "streamChat", !.a = a, !.pc = "created",
                              !.messages = messages, !.options = options]
  /\ ret' = NoRet
  /\ UNCHANGED <<command, retry, listing, env, providers, apiKey, client, cachedModels, modelsCacheTime,
                 now, pending, netCalls, vendorCalls, wire, yielded>>

\* The first next() on the generator of the invocation created: the body
\* runs from assertAvailable to streamText, whose stream will carry gen.
streamPulled(created, gen) ==
  LET a == created.a
      avail == assertAvailable(a)
      modelId == resolveModelId(a, created.options)
      m == createModel(a, modelId)
  IN IF avail.raised
       THEN /\ call' = [created EXCEPT !.pc = "done"]
            /\ ret' = [op |-> "streamChat", arg |-> a, result |-> avail]
            /\ UNCHANGED <<client, vendorCalls, wire>>
       ELSE IF m.result.raised
       THEN /\ call' = [created EXCEPT !.pc = "done", !.modelId = modelId]
            /\ ret' = [op |-> "streamChat", arg |-> a, result |-> m.result]
            /\ client' = [client EXCEPT ![a] = m.client]
            /\ UNCHANGED <<vendorCalls, wire>>
       ELSE /\ call' = [created EXCEPT
                          !.pc = "streaming", !.modelId = modelId, !.attempts = 1,
                          !.generation = gen,
                          !.request = Some(callOptions(m.result.value, created.messages,
                                                       created.options, a))]
            /\ client' = [client EXCEPT ![a] = m.client]
            /\ vendorCalls' = [vendorCalls EXCEPT ![a] = @ + 1]
            /\ wire' = [ClosedWire EXCEPT !.status = "open"]
            /\ ret' = NoRet

\* The consumer of a created sequence pulls for the first time.
StreamFirstPull(gen) ==
  /\ call.op = "streamChat" /\ call.pc = "created"
  /\ streamPulled(call, gen)
  /\ UNCHANGED <<command, retry, listing, env, providers, apiKey, cachedModels, modelsCacheTime, now,
                 pending, netCalls, yielded>>

\* The next fragment of the generation arrives on result.textStream.
VendorDeliver ==
  /\ wire.status = "open"
  /\ wire.delivered < Len(call.generation)
  /\ wire' = [wire EXCEPT !.delivered = @ + 1]
  /\ UNCHANGED <<command, retry, listing, env, providers, apiKey, client, cachedModels, modelsCacheTime,
                 now, pending, netCalls, call, vendorCalls, yielded, ret>>

\* The vendor signals completion after the last fragment.
VendorEnd ==
  /\ wire.status = "open"
  /\ wire.delivered = Len(call.generation)
  /\ wire' = [wire EXCEPT !.status = "ended"]
  /\ UNCHANGED <<command, retry, listing, env, providers, apiKey, client, cachedModels, modelsCacheTime,
                 now, pending, netCalls, call, vendorCalls, yielded, ret>>

\* The vendor call fails (streamText rejects, or textStream errors) after the
\* fragments delivered so far; before the first fragment, only once the
\* retries are used up.
VendorFail(e) ==
  /\ wire.status = "open"
  /\ wire.delivered = 0 => ~retriesLeft
  /\ wire' = [wire EXCEPT !.status = "failed", !.error = Some(e)]
  /\ UNCHANGED <<command, retry, listing, env, providers, apiKey, client, cachedModels, modelsCacheTime,
                 now, pending, netCalls, call, vendorCalls, yielded, ret>>

\* A yield that skips a chunk equal to the one yielded before it.
streamYieldSkipRepeat(received, chunk) ==
  IF received # <<>> /\ received[Len(received)] = chunk
    THEN received
    ELSE Append(received, chunk)

\* `yield chunk`: what the consumer has received after the chunk is yielded.
streamYield(received, chunk) == Append(received, chunk)

\* A catch block that swallows the error: the generator ends normally.
streamCatchSwallow(error) == Return(Undefined)

\* `catch (error) { throw error; }`
streamCatch(error) == Throw(error)

\* for await (const chunk of result.textStream) yield chunk: one iteration.
StreamYield ==
  /\ call.op = "streamChat" /\ call.pc = "streaming"
  /\ wire.taken < wire.delivered
  /\ wire' = [wire EXCEPT !.taken = @ + 1]
  /\ yielded' = streamYield(yielded, call.generation[wire.taken + 1])
  /\ UNCHANGED <<command, retry, listing, env, providers, apiKey, client, cachedModels, modelsCacheTime,
                 now, pending, netCalls, call, vendorCalls, ret>>

\* textStream is exhausted: the generator returns.
StreamReturn ==
  /\ call.op = "streamChat" /\ call.pc = "streaming"
  /\ wire.status = "ended" /\ wire.taken = wire.delivered
  /\ call' = [call EXCEPT !.pc = "done"]
  /\ ret' = [op |-> "streamChat", arg |-> call.a, result |-> Return(Undefined)]
  /\ UNCHANGED <<command, retry, listing, env, providers, apiKey, client, cachedModels, modelsCacheTime,
                 now, pending, netCalls, vendorCalls, wire, yielded>>

\* The vendor failure surfaces in the generator, which rethrows it.  An
\* errored stream may surface its error ahead of fragments not yet read.
StreamRaise ==
  /\ call.op = "streamChat" /\ call.pc = "streaming"
  /\ wire.status = "failed"
  /\ call' = [call EXCEPT !.pc = "done"]
  /\ ret' = [op |-> "streamChat", arg |-> call.a, result |-> streamCatch(wire.error[1])]
  /\ UNCHANGED <<command, retry, listing, env, providers, apiKey, client, cachedModels, modelsCacheTime,
                 now, pending, netCalls, vendorCalls, wire, yielded>>

\* The caller is done with the outcome of the call.
Forget ==
  /\ call.pc = "done"
  /\ call' = IdleCall
  /\ wire' = ClosedWire
  /\ yielded' = <<>>
  /\ ret' = NoRet
  /\ UNCHANGED <<command, retry, listing, env, providers, apiKey, client, cachedModels, modelsCacheTime,
                 now, pending, netCalls, vendorCalls>>

----------------------------------------------------------------------------
(* fetchAvailableModels and the model-list cache *)

CACHE_DURATION == 60 * 60 * 1000

\* Adapters that override fetchAvailableModels with a cached version.
HasModelCache == {"OpenAIProvider", "GeminiProvider", "AnthropicProvider"}

\* Of those, the adapters that query the vendor over HTTP.
LiveListing == {"OpenAIProvider", "GeminiProvider"}

\* String.prototype.includes
Includes(str, sub) ==
  \E i \in 1..(Len(str) - Len(sub) + 1) : SubSeq(str, i, i + Len(sub) - 1) = sub

\* String.prototype.replace with a string pattern: the first occurrence only.
Replace(str, sub, rep) ==
  IF Includes(str, sub)
    THEN LET i == CHOOSE j \in 1..(Len(str) - Len(sub) + 1) :
                    /\ SubSeq(str, j, j + Len(sub) - 1) = sub
                    /\ \A k \in 1..(j - 1) : SubSeq(str, k, k + Len(sub) - 1) # sub
         IN SubSeq(str, 1, i - 1) \o rep \o SubSeq(str, i + Len(sub), Len(str))
    ELSE str

\* Array.prototype.sort with (a, b) => b.created - a.created: newest first,
\* equal elements keeping their order (the sort is stable).
RECURSIVE InsertByCreated(_, _)
InsertByCreated(sorted, x) ==
  IF sorted = <<>> THEN <<x>>
  ELSE IF Head(sorted).created >= x.created
    THEN <<Head(sorted)>> \o InsertByCreated(Tail(sorted), x)
    ELSE <<x>> \o sorted

RECURSIVE SortByCreated(_)
SortByCreated(xs) ==
  IF xs = <<>> THEN <<>>
  ELSE InsertByCreated(SortByCreated(SubSeq(xs, 1, Len(xs) - 1)), xs[Len(xs)])

\* The part of OpenAI's fetchAvailableModels from response.json() to the
\* list of chat model ids: it throws on a body that is not JSON, has no data
\* array or has an element without an id.
parseOpenAIModels(json) ==
  IF json = None \/ json[1].data = None
       \/ \E i \in 1..Len(json[1].data[1]) : json[1].data[1][i].id = Undefined
    THEN Throw("TypeError")
    ELSE LET IsChat(m) == Includes(m.id, "gpt") \/ Includes(m.id, "o1")
                            \/ Includes(m.id, "chatgpt")
             sorted == SortByCreated(SelectSeq(json[1].data[1], IsChat))
         IN Return([i \in 1..Len(sorted) |-> sorted[i].id])

\* The same part of Gemini's fetchAvailableModels: it throws on a body that
\* is not JSON, has no models array or has a generateContent model without a
\* name.
parseGeminiModels(json) ==
  IF json = None \/ json[1].models = None
    THEN Throw("TypeError")
    ELSE LET Generates(m) == /\ m.supportedGenerationMethods # None
                             /\ "generateContent" \in m.supportedGenerationMethods[1]
             chat == SelectSeq(json[1].models[1], Generates)
         IN IF \E i \in 1..Len(chat) : chat[i].name = Undefined
              THEN Throw("TypeError")
              ELSE LET names == [i \in 1..Len(chat) |-> Replace(chat[i].name, "models/", "")]
                       IsGemini(n) == Includes(n, "gemini")
                   IN Return(SelectSeq(names, IsGemini))

parseModels(a, json) ==
  IF a = "OpenAIProvider" THEN parseOpenAIModels(json) ELSE parseGeminiModels(json)

\* The list AnthropicProvider.fetchAvailableModels serves in place of a query.
anthropicModels ==
  <<"claude-opus-4-1-20250805", "claude-3-5-sonnet-20241022",
    "claude-3-5-haiku-20241022", "claude-3-opus-20240229", "claude-3-opus-latest",
    "claude-3-sonnet-20240229", "claude-3-haiku-20240307", "claude-2.1",
    "claude-2.0", "claude-instant-1.2">>

\* A freshness test that still accepts an entry exactly one window old.
cacheValidInclusive(a, t) ==
  /\ cachedModels[a] # None
  /\ TruthyNum(modelsCacheTime[a])
  /\ t - modelsCacheTime[a][1] <= CACHE_DURATION

\* The freshness test at the head of fetchAvailableModels.
cacheValid(a, t) ==
  /\ cachedModels[a] # None
  /\ TruthyNum(modelsCacheTime[a])
  /\ t - modelsCacheTime[a][1] < CACHE_DURATION

\* A failure path that serves the cached list, when there is one, in place
\* of the static catalog.
fetchSettledServeStale(a, response, t) ==
  LET parsed == parseModels(a, response.json)
      failed == response.rejects \/ ~response.ok \/ parsed.raised
      list == IF Len(parsed.value) > 0 THEN parsed.value ELSE getAvailableModels(a)
  IN IF failed
       THEN [result |-> IF cachedModels[a] # None
                          THEN Return(cachedModels[a][1])
                          ELSE Return(getAvailableModels(a)),
             cachedModels |-> cachedModels[a],
             modelsCacheTime |-> modelsCacheTime[a]]
       ELSE [result |-> Return(list), cachedModels |-> Some(list),
             modelsCacheTime |-> Some(t)]

\* A failure path that drops the cache entry.
fetchSettledClearOnFailure(a, response, t) ==
  LET parsed == parseModels(a, response.json)
      failed == response.rejects \/ ~response.ok \/ parsed.raised
      list == IF Len(parsed.value) > 0 THEN parsed.value ELSE getAvailableModels(a)
  IN IF failed
       THEN [result |-> Return(getAvailableModels(a)), cachedModels |-> None,
             modelsCacheTime |-> None]
       ELSE [result |-> Return(list), cachedModels |-> Some(list),
             modelsCacheTime |-> Some(t)]

\* A failure path that caches the static catalog it returns.
fetchSettledCachesFallback(a, response, t) ==
  LET parsed == parseModels(a, response.json)
      failed == response.rejects \/ ~response.ok \/ parsed.raised
      list == IF Len(parsed.value) > 0 THEN parsed.value ELSE getAvailableModels(a)
  IN IF failed
       THEN [result |-> Return(getAvailableModels(a)),
             cachedModels |-> Some(getAvailableModels(a)),
             modelsCacheTime |-> Some(t)]
       ELSE [result |-> Return(list), cachedModels |-> Some(list),
             modelsCacheTime |-> Some(t)]

\* A success path that stores the list without stamping the time.
fetchSettledNoStamp(a, response, t) ==
  LET parsed == parseModels(a, response.json)
      failed == response.rejects \/ ~response.ok \/ parsed.raised
      list == IF Len(parsed.value) > 0 THEN parsed.value ELSE getAvailableModels(a)
  IN IF failed
       THEN [result |-> Return(getAvailableModels(a)), cachedModels |-> cachedModels[a],
             modelsCacheTime |-> modelsCacheTime[a]]
       ELSE [result |-> Return(list), cachedModels |-> Some(list),
             modelsCacheTime |-> modelsCacheTime[a]]

\* fetchAvailableModels from the point where fetch() settles, at time t: what
\* it returns and the cache fields afterwards.
fetchSettled(a, response, t) ==
  LET unchanged(result) ==
        [result |-> result, cachedModels |-> cachedModels[a],
         modelsCacheTime |-> modelsCacheTime[a]]
      parsed == parseModels(a, response.json)
  IN IF response.rejects THEN unchanged(Return(getAvailableModels(a)))
     ELSE IF ~response.ok THEN unchanged(Return(getAvailableModels(a)))
     ELSE IF parsed.raised THEN unchanged(Return(getAvailableModels(a)))
     ELSE LET chatModels == parsed.value
              list == IF Len(chatModels) > 0 THEN chatModels ELSE getAvailableModels(a)
          IN [result |-> Return(list), cachedModels |-> Some(list),
              modelsCacheTime |-> Some(t)]

\* HTTP responses of the vendors' model-list endpoints.
Rejected == [rejects |-> TRUE, ok |-> FALSE, json |-> None]

Status500 == [rejects |-> FALSE, ok |-> FALSE, json |-> None]

NotJson == [rejects |-> FALSE, ok |-> TRUE, json |-> None]

OpenAIResponses ==
  {Rejected, Status500, NotJson,
   [rejects |-> FALSE, ok |-> TRUE, json |-> Some([data |-> None])],
   [rejects |-> FALSE, ok |-> TRUE,
    json |-> Some([data |-> Some(<<[id |-> "gpt-5", created |-> 3],
                                   [id |-> Undefined, created |-> 4]>>)])],
   [rejects |-> FALSE, ok |-> TRUE,
    json |-> Some([data |-> Some(<<[id |-> "whisper-1", created |-> 1]>>)])],
   [rejects |-> FALSE, ok |-> TRUE,
    json |-> Some([data |-> Some(<<[id |-> "gpt-5", created |-> 3],
                                   [id |-> "whisper-1", created |-> 5],
                                   [id |-> "o1-mini", created |-> 4],
                                   [id |-> "chatgpt-4o-latest", created |-> 4]>>)])]}

GeminiResponses ==
  {Rejected, Status500, NotJson,
   [rejects |-> FALSE, ok |-> TRUE, json |-> Some([models |-> None])],
   [rejects |-> FALSE, ok |-> TRUE,
    json |-> Some([models |-> Some(<<[name |-> Undefined,
                                      supportedGenerationMethods |->
                                        Some({"generateContent"})]>>)])],
   [rejects |-> FALSE, ok |-> TRUE,
    json |-> Some([models |-> Some(<<[name |-> "models/embedding-001",
                                      supportedGenerationMethods |->
                                        Some({"embedContent"})]>>)])],
   [rejects |-> FALSE, ok |-> TRUE,
    json |-> Some([models |-> Some(<<[name |-> "models/gemini-3-pro",
                                      supportedGenerationMethods |->
                                        Some({"generateContent"})],
                                     [name |-> "models/aqa",
                                      supportedGenerationMethods |->
                                        Some({"generateContent"})],
                                     [name |-> "models/gemini-embedding",
                                      supportedGenerationMethods |-> None],
                                     [name |-> "models/gemini-2.5-flash",
                                      supportedGenerationMethods |->
                                        Some({"generateContent", "countTokens"})]>>)])]}

Responses(a) == IF a = "OpenAIProvider" THEN OpenAIResponses ELSE GeminiResponses

TotalNetCalls == SumOver(netCalls, Adapters)

\* A fetchAvailableModels that does not test isAvailable() before it goes to
\* the vendor or to its built-in list.
FetchCallUnchecked(a) ==
  /\ (a \in LiveListing /\ ~cacheValid(a, now)) => TotalNetCalls < MaxFetches
  /\ IF a \in HasModelCache /\ cacheValid(a, now)
       THEN /\ ret' = [op |-> "fetchAvailableModels", arg |-> a,
                       result |-> Return(cachedModels[a][1]), response |-> None]
            /\ UNCHANGED <<cachedModels, modelsCacheTime, pending, netCalls>>
       ELSE IF a \notin HasModelCache
       THEN /\ ret' = [op |-> "fetchAvailableModels", arg |-> a,
                       result |-> Return(getAvailableModels(a)), response |-> None]
            /\ UNCHANGED <<cachedModels, modelsCacheTime, pending, netCalls>>
       ELSE IF a \in LiveListing
       THEN /\ netCalls' = [netCalls EXCEPT ![a] = @ + 1]
            /\ pending' = pending \cup {[id |-> TotalNetCalls + 1, a |-> a,
                                         apiKey |-> apiKey[a], at |-> now]}
            /\ ret' = NoRet
            /\ UNCHANGED <<cachedModels, modelsCacheTime>>
       ELSE /\ cachedModels' = [cachedModels EXCEPT ![a] = Some(anthropicModels)]
            /\ modelsCacheTime' = [modelsCacheTime EXCEPT ![a] = Some(now)]
            /\ ret' = [op |-> "fetchAvailableModels", arg |-> a,
                       result |-> Return(anthropicModels), response |-> None]
            /\ UNCHANGED <<pending, netCalls>>
  /\ UNCHANGED <<command, retry, listing, env, providers, apiKey, client, now, call,
                 vendorCalls, wire, yielded>>

\* A fetchAvailableModels() that issues no request of its own while one is
\* already in flight for the adapter.
FetchCallJoinsInFlight(a) ==
  /\ (a \in LiveListing /\ isAvailable(a) /\ ~cacheValid(a, now))
       => TotalNetCalls < MaxFetches
  /\ IF a \in HasModelCache /\ cacheValid(a, now)
       THEN /\ ret' = [op |-> "fetchAvailableModels", arg |-> a,
                       result |-> Return(cachedModels[a][1]), response |-> None]
            /\ UNCHANGED <<cachedModels, modelsCacheTime, pending, netCalls>>
       ELSE IF a \notin HasModelCache \/ ~isAvailable(a)
       THEN /\ ret' = [op |-> "fetchAvailableModels", arg |-> a,
                       result |-> Return(getAvailableModels(a)), response |-> None]
            /\ UNCHANGED <<cachedModels, modelsCacheTime, pending, netCalls>>
       ELSE IF a \in LiveListing
       THEN /\ ret' = NoRet
            /\ IF \E req \in pending : req.a = a
                 THEN UNCHANGED <<pending, netCalls>>
                 ELSE /\ netCalls' = [netCalls EXCEPT ![a] = @ + 1]
                      /\ pending' = pending \cup {[id |-> TotalNetCalls + 1, a |-> a,
                                                   apiKey |-> apiKey[a], at |-> now]}
            /\ UNCHANGED <<cachedModels, modelsCacheTime>>
       ELSE /\ cachedModels' = [cachedModels EXCEPT ![a] = Some(anthropicModels)]
            /\ modelsCacheTime' = [modelsCacheTime EXCEPT ![a] = Some(now)]
            /\ ret' = [op |-> "fetchAvailableModels", arg |-> a,
                       result |-> Return(anthropicModels), response |-> None]
            /\ UNCHANGED <<pending, netCalls>>
  /\ UNCHANGED <<command, retry, listing, env, providers, apiKey, client, now, call, vendorCalls, wire, yielded>>

\* fetchAvailableModels(), up to its return or its await of fetch().
FetchCall(a) ==
  /\ (a \in LiveListing /\ isAvailable(a) /\ ~cacheValid(a, now))
       => TotalNetCalls < MaxFetches
  /\ IF a \in HasModelCache /\ cacheValid(a, now)
       THEN /\ ret' = [op |-> "fetchAvailableModels", arg |-> a,
                       result |-> Return(cachedModels[a][1]), response |-> None]
            /\ UNCHANGED <<cachedModels, modelsCacheTime, pending, netCalls>>
       ELSE IF a \notin HasModelCache \/ ~isAvailable(a)
       THEN /\ ret' = [op |-> "fetchAvailableModels", arg |-> a,
                       result |-> Return(getAvailableModels(a)), response |-> None]
            /\ UNCHANGED <<cachedModels, modelsCacheTime, pending, netCalls>>
       ELSE IF a \in LiveListing
       THEN /\ netCalls' = [netCalls EXCEPT ![a] = @ + 1]
            /\ pending' = pending \cup {[id |-> TotalNetCalls + 1, a |-> a,
                                         apiKey |-> apiKey[a], at |-> now]}
            /\ ret' = NoRet
            /\ UNCHANGED <<cachedModels, modelsCacheTime>>
       ELSE /\ cachedModels' = [cachedModels EXCEPT ![a] = Some(anthropicModels)]
            /\ modelsCacheTime' = [modelsCacheTime EXCEPT ![a] = Some(now)]
            /\ ret' = [op |-> "fetchAvailableModels", arg |-> a,
                       result |-> Return(anthropicModels), response |-> None]
            /\ UNCHANGED <<pending, netCalls>>
  /\ UNCHANGED <<command, retry, listing, env, providers, apiKey, client, now, call, vendorCalls, wire, yielded>>

\* fetch() settles with the given response and the call runs to its return.
FetchSettle(req, response) ==
  /\ req \in pending
  /\ LET after == fetchSettled(req.a, response, now) IN
       /\ cachedModels' = [cachedModels EXCEPT ![req.a] = after.cachedModels]
       /\ modelsCacheTime' = [modelsCacheTime EXCEPT ![req.a] = after.modelsCacheTime]
       /\ ret' = [op |-> "fetchAvailableModels", arg |-> req.a,
                  result |-> after.result, response |-> Some(response)]
  /\ pending' = pending \ {req}
  /\ UNCHANGED <<command, retry, listing, env, providers, apiKey, client, now, netCalls, call, vendorCalls,
                 wire, yielded>>

\* Times the clock is observed at: each multiple of the cache window after
\* the start, and the millisecond before it.
TimePoints ==
  {t \in {StartTime + h * CACHE_DURATION + o : h \in 0..MaxHours, o \in {-1, 0}} :
     t >= StartTime}

\* Time passes.
Tick(t) ==
  /\ t > now
  /\ now' = t
  /\ UNCHANGED <<command, retry, listing, env, providers, apiKey, client, cachedModels, modelsCacheTime,
                 pending, netCalls, call, vendorCalls, wire, yielded, ret>>

----------------------------------------------------------------------------
(* withRetry *)

\* Half seconds the clock runs for while withRetry invocations are observed.
MaxHalfSeconds == 16

IdleRetry ==
  [pc |-> "idle", maxRetries |-> 0, delay |-> 0, backoff |-> 0, attempt |-> 0,
   wakeAt |-> 0, started |-> <<>>, failed |-> <<>>, waits |-> <<>>,
   caught |-> None]

\* The options argument: each of maxRetries, delay and backoff may be absent.
RetryOptionsSet ==
  {[maxRetries |-> None, delay |-> None, backoff |-> None],
   [maxRetries |-> Some(4), delay |-> None, backoff |-> None],
   [maxRetries |-> Some(2), delay |-> Some(500), backoff |-> Some(3)],
   [maxRetries |-> Some(1), delay |-> Some(500), backoff |-> None],
   [maxRetries |-> Some(0), delay |-> None, backoff |-> None],
   [maxRetries |-> Some(-1), delay |-> None, backoff |-> None]}

\* A destructuring default: it applies when the property is undefined.
Default(v, d) == IF v = None THEN d ELSE v[1]

\* Math.pow on non-negative integers
RECURSIVE Pow(_, _)
Pow(b, n) == IF n = 0 THEN 1 ELSE b * Pow(b, n - 1)

\* A wait that does not grow with the attempt number.
waitTimeConstant(delay, backoff, attempt) == delay

\* delay * Math.pow(backoff, attempt)
waitTime(delay, backoff, attempt) == delay * Pow(backoff, attempt)

\* withRetry(fn, options) up to its first await: the loop is entered and fn
\* called, unless maxRetries admits no attempt at all.
WithRetryCall(options) ==
  /\ retry.pc = "idle"
  /\ LET maxRetries == Default(options.maxRetries, 3)
         entered == [IdleRetry EXCEPT !.maxRetries = maxRetries,
                                      !.delay = Default(options.delay, 1000),
                                      !.backoff = Default(options.backoff, 2)]
     IN IF 0 < maxRetries
          THEN /\ retry' = [entered EXCEPT !.pc = "running", !.started = <<now>>]
               /\ ret' = NoRet
          ELSE /\ retry' = [entered EXCEPT !.pc = "done"]
               /\ ret' = [op |-> "withRetry", arg |-> "",
                          result |-> Throw("Retry failed")]
  /\ UNCHANGED <<command, listing, env, providers, apiKey, client, cachedModels,
                 modelsCacheTime, now, pending, netCalls, call, vendorCalls, wire,
                 yielded>>

\* fn() resolves: withRetry returns its value.
RetryFnResolve(v) ==
  /\ retry.pc = "running"
  /\ retry' = [retry EXCEPT !.pc = "done"]
  /\ ret' = [op |-> "withRetry", arg |-> "", result |-> Return(v)]
  /\ UNCHANGED <<command, listing, env, providers, apiKey, client, cachedModels,
                 modelsCacheTime, now, pending, netCalls, call, vendorCalls, wire,
                 yielded>>

\* A last-attempt test that is off by one.
isLastAttemptOffByOne(attempt, maxRetries) == attempt = maxRetries

\* attempt === maxRetries - 1
isLastAttempt(attempt, maxRetries) == attempt = maxRetries - 1

\* fn() rejects: the last attempt rethrows, any other starts the timer.
RetryFnReject(error) ==
  /\ retry.pc = "running"
  /\ IF isLastAttempt(retry.attempt, retry.maxRetries)
       THEN /\ retry' = [retry EXCEPT !.pc = "done", !.failed = Append(@, now),
                                      !.caught = Some(error)]
            /\ ret' = [op |-> "withRetry", arg |-> "", result |-> Throw(error)]
       ELSE LET w == waitTime(retry.delay, retry.backoff, retry.attempt) IN
            /\ retry' = [retry EXCEPT !.pc = "waiting", !.wakeAt = now + w,
                                      !.failed = Append(@, now),
                                      !.waits = Append(@, w),
                                      !.caught = Some(error)]
            /\ UNCHANGED ret
  /\ UNCHANGED <<command, listing, env, providers, apiKey, client, cachedModels,
                 modelsCacheTime, now, pending, netCalls, call, vendorCalls, wire,
                 yielded>>

\* The setTimeout callback runs, no earlier than the timer's due time: the
\* loop goes on to the next attempt and calls fn, or ends and the trailing
\* throw is reached.
RetryTimerFires ==
  /\ retry.pc = "waiting"
  /\ now >= retry.wakeAt
  /\ IF retry.attempt + 1 < retry.maxRetries
       THEN /\ retry' = [retry EXCEPT !.pc = "running", !.attempt = @ + 1,
                                      !.started = Append(@, now)]
            /\ UNCHANGED ret
       ELSE /\ retry' = [retry EXCEPT !.pc = "done", !.attempt = @ + 1]
            /\ ret' = [op |-> "withRetry", arg |-> "",
                       result |-> Throw("Retry failed")]
  /\ UNCHANGED <<command, listing, env, providers, apiKey, client, cachedModels,
                 modelsCacheTime, now, pending, netCalls, call, vendorCalls, wire,
                 yielded>>

\* The caller is done with the outcome of withRetry.
RetryForget ==
  /\ retry.pc = "done"
  /\ retry' = IdleRetry
  /\ ret' = NoRet
  /\ UNCHANGED <<command, listing, env, providers, apiKey, client, cachedModels,
                 modelsCacheTime, now, pending, netCalls, call, vendorCalls, wire,
                 yielded>>

\* Time passes, in steps of half a second.
Advance(ms) ==
  /\ now + ms <= StartTime + MaxHalfSeconds * 500
  /\ now' = now + ms
  /\ UNCHANGED <<command, retry, listing, env, providers, apiKey, client, cachedModels,
                 modelsCacheTime, pending, netCalls, call, vendorCalls, wire,
                 yielded, ret>>

----------------------------------------------------------------------------
(* ListProvidersCommand.execute: the fan-out over fetchAvailableModels *)

IdleListing ==
  [pc |-> "idle", infos |-> <<>>, requests |-> {},
   responses |-> [a \in Adapters |-> None], results |-> [a \in Adapters |-> None],
   modelResults |-> <<>>]

\* fetchAvailableModels() of adapter a begun at time t, up to its return or
\* its await of fetch(): whether it awaits, what it returns if it does not,
\* and the cache fields afterwards.
fetchBegun(a, t) ==
  LET unchanged(awaits, models) ==
        [awaits |-> awaits, models |-> models, cachedModels |-> cachedModels[a],
         modelsCacheTime |-> modelsCacheTime[a]]
  IN IF a \in HasModelCache /\ cacheValid(a, t)
       THEN unchanged(FALSE, cachedModels[a][1])
     ELSE IF a \notin HasModelCache \/ ~isAvailable(a)
       THEN unchanged(FALSE, getAvailableModels(a))
     ELSE IF a \in LiveListing
       THEN unchanged(TRUE, <<>>)
     ELSE [awaits |-> FALSE, models |-> anthropicModels,
           cachedModels |-> Some(anthropicModels), modelsCacheTime |-> Some(t)]

\* The value one mapped promise resolves with: the fetched list, or the
\* static list of providerInfo when fetchAvailableModels threw.
fetchedOrStatic(info, outcome) ==
  IF outcome.raised THEN info.models ELSE outcome.value

\* A modelResults that keeps an entry only for the available providers.
modelResultsOfAvailable(infos, results) ==
  LET avail == SelectSeq(infos, LAMBDA info : info.available) IN
  [i \in 1..Len(avail) |->
     [name |-> avail[i].name, displayName |-> avail[i].displayName,
      models |-> results[get(avail[i].name).value][1]]]

\* modelResults: one entry per providerInfo, in the order of providers.
modelResultsOf(infos, results) ==
  [i \in 1..Len(infos) |->
     [name |-> infos[i].name, displayName |-> infos[i].displayName,
      models |-> results[get(infos[i].name).value][1]]]

\* execute(), from listAvailableProviders() through providers.map(...) to
\* the await of Promise.all: every mapped function runs up to its first
\* await, so all requests are issued before any of them settles.
ListProvidersExecute ==
  /\ listing.pc \in {"idle", "done"}
  /\ pending = {}
  /\ LET infos == listAvailableProviders
         Adapter(i) == get(infos[i].name).value
         InfoOf(a) == infos[CHOOSE i \in 1..Len(infos) : Adapter(i) = a]
         called == {Adapter(i) : i \in {j \in 1..Len(infos) : infos[j].available}}
         awaited == {a \in called : fetchBegun(a, now).awaits}
         Rank(a) == Cardinality({i \in 1..Len(infos) :
                                   Adapter(i) \in awaited
                                   /\ \E j \in i..Len(infos) : Adapter(j) = a})
         results == [a \in Adapters |->
                       IF a \notin called
                         THEN Some(InfoOf(a).models)
                       ELSE IF a \in awaited THEN None
                       ELSE Some(fetchedOrStatic(InfoOf(a),
                                                 Return(fetchBegun(a, now).models)))]
     IN /\ TotalNetCalls + Cardinality(awaited) <= MaxFetches
        /\ cachedModels' = [a \in Adapters |->
                              IF a \in called THEN fetchBegun(a, now).cachedModels
                              ELSE cachedModels[a]]
        /\ modelsCacheTime' = [a \in Adapters |->
                                 IF a \in called THEN fetchBegun(a, now).modelsCacheTime
                                 ELSE modelsCacheTime[a]]
        /\ netCalls' = [a \in Adapters |->
                          IF a \in awaited THEN netCalls[a] + 1 ELSE netCalls[a]]
        /\ pending' = {[id |-> TotalNetCalls + Rank(a), a |-> a, apiKey |-> apiKey[a],
                        at |-> now] : a \in awaited}
        /\ listing' = [IdleListing EXCEPT
                         !.pc = IF awaited = {} THEN "done" ELSE "waiting",
                         !.infos = infos,
                         !.requests = {TotalNetCalls + Rank(a) : a \in awaited},
                         !.results = results,
                         !.modelResults = IF awaited = {}
                                            THEN modelResultsOf(infos, results)
                                            ELSE <<>>]
  /\ ret' = NoRet
  /\ UNCHANGED <<command, retry, env, providers, apiKey, client, now, call, vendorCalls, wire,
                 yielded>>

\* One of the requests of the fan-out settles: its mapped promise resolves,
\* and with the last of them Promise.all does and modelResults is built.
ListProvidersSettle(req, response) ==
  /\ listing.pc = "waiting"
  /\ req \in pending /\ req.id \in listing.requests
  /\ LET a == req.a
         after == fetchSettled(a, response, now)
         info == listing.infos[CHOOSE i \in 1..Len(listing.infos) :
                                 get(listing.infos[i].name).value = a]
         results == [listing.results EXCEPT
                       ![a] = Some(fetchedOrStatic(info, after.result))]
         last == listing.requests = {req.id}
     IN /\ cachedModels' = [cachedModels EXCEPT ![a] = after.cachedModels]
        /\ modelsCacheTime' = [modelsCacheTime EXCEPT ![a] = after.modelsCacheTime]
        /\ listing' = [listing EXCEPT
                         !.pc = IF last THEN "done" ELSE "waiting",
                         !.requests = @ \ {req.id},
                         !.responses = [@ EXCEPT ![a] = Some(response)],
                         !.results = results,
                         !.modelResults = IF last
                                            THEN modelResultsOf(listing.infos, results)
                                            ELSE <<>>]
  /\ pending' = pending \ {req}
  /\ UNCHANGED <<command, retry, env, providers, apiKey, client, now, netCalls, call,
                 vendorCalls, wire, yielded, ret>>

----------------------------------------------------------------------------
(* Registry and adapter queries *)

\* Model ids a caller passes to createModel: none, or an explicit one.
ModelIds == {Undefined, "custom-model"}

\* provider.createModel(modelId), called by itself.
CreateModel(a, modelId) ==
  /\ call.pc = "idle"
  /\ LET m == createModel(a, modelId) IN
       /\ client' = [client EXCEPT ![a] = m.client]
       /\ ret' = [op |-> "createModel", arg |-> a, modelId |-> modelId,
                  result |-> m.result]
  /\ UNCHANGED <<command, retry, listing, env, providers, apiKey, cachedModels, modelsCacheTime,
                 now, pending, netCalls, call, vendorCalls, wire, yielded>>

\* The process environment changes after the registry was constructed:
\* variable k is set to v, or unset when v is Undefined.
SetEnv(k, v) ==
  /\ env[k] # v
  /\ env' = [env EXCEPT ![k] = v]
  /\ UNCHANGED <<command, retry, listing, providers, apiKey, client, cachedModels,
                 modelsCacheTime, now, pending, netCalls, call, vendorCalls, wire,
                 yielded, ret>>

RegistryGet(name) ==
  /\ ret' = [op |-> "get", arg |-> name, result |-> get(name)]
  /\ UNCHANGED <<command, retry, listing, env, providers, apiKey, client, cachedModels, modelsCacheTime,
                 now, pending, netCalls, call, vendorCalls, wire, yielded>>

RegistryGetFirstAvailable ==
  /\ ret' = [op |-> "getFirstAvailable", arg |-> "", result |-> Return(getFirstAvailable)]
  /\ UNCHANGED <<command, retry, listing, env, providers, apiKey, client, cachedModels, modelsCacheTime,
                 now, pending, netCalls, call, vendorCalls, wire, yielded>>

RegistryListAllProviders ==
  /\ ret' = [op |-> "listAllProviders", arg |-> "", result |-> Return(listAllProviders)]
  /\ UNCHANGED <<command, retry, listing, env, providers, apiKey, client, cachedModels, modelsCacheTime,
                 now, pending, netCalls, call, vendorCalls, wire, yielded>>

RegistryListAvailableProviders ==
  /\ ret' = [op |-> "listAvailableProviders", arg |-> "",
             result |-> Return(listAvailableProviders)]
  /\ UNCHANGED <<command, retry, listing, env, providers, apiKey, client, cachedModels, modelsCacheTime,
                 now, pending, netCalls, call, vendorCalls, wire, yielded>>

----------------------------------------------------------------------------
(* Initial states and specifications *)

\* The state after `new ProviderRegistry()` in environment e.
-----------------------------------------------------------------------------
(* handleChatError and the chat command *)

\* What handleChatError and the command's catch blocks read from a caught
\* value: whether it is an Error, its name, message, statusCode and
\* responseBody, and String(value).  The message of an AiChatError is
\* modelled by its first line.
asThrown(e) ==
  IF "code" \in DOMAIN e
    THEN LET message ==
               IF e.code = "API_KEY_MISSING"
                 THEN e.details.envKey \o " not found. Please set the "
                        \o e.details.envKey \o " environment variable to use "
                        \o e.details.provider \o "."
                 ELSE "Provider \"" \o e.details.requested \o "\" not found."
         IN [isError |-> TRUE, name |-> e.name, message |-> message,
             statusCode |-> None, responseBody |-> Undefined,
             text |-> e.name \o ": " \o message]
    ELSE [isError |-> TRUE, name |-> e.name, message |-> e.message,
          statusCode |-> e.statusCode, responseBody |-> e.responseBody,
          text |-> e.name \o ": " \o e.message]

\* Response bodies a vendor error may carry.
BodyWithMessage == "{\"error\":{\"message\":\"rate limited\"}}"
BodyWithStringError == "{\"error\":\"quota exceeded\"}"
BodyWithBareError == "{\"error\":{\"code\":429}}"
BodyWithoutError == "{\"detail\":\"not found\"}"
BodyJsonNull == "null"
BodyNotJson == "<html>Bad Gateway</html>"

\* JSON.parse on the bodies above: the parsed value, or the SyntaxError it
\* throws on any text that is not JSON.  Of a parsed object the model keeps
\* its error property: absent, a string, or an object with its message
\* property and its JSON.stringify text.
JsonParse(body) ==
  CASE body = BodyWithMessage ->
         Return([isObject |-> TRUE,
                 error |-> Some([isString |-> FALSE, message |-> "rate limited",
                                 json |-> "{\"message\":\"rate limited\"}"])])
    [] body = BodyWithStringError ->
         Return([isObject |-> TRUE,
                 error |-> Some([isString |-> TRUE, message |-> Undefined,
                                 json |-> "quota exceeded"])])
    [] body = BodyWithBareError ->
         Return([isObject |-> TRUE,
                 error |-> Some([isString |-> FALSE, message |-> Undefined,
                                 json |-> "{\"code\":429}"])])
    [] body = BodyWithoutError -> Return([isObject |-> TRUE, error |-> None])
    [] body = BodyJsonNull -> Return([isObject |-> FALSE, error |-> None])
    [] OTHER -> Throw("SyntaxError")

\* The detail line printed for an error that has a status code and a
\* response body: the try / catch around JSON.parse.  Reading a property of
\* a parsed null throws inside the try, like a parse failure.
apiErrorDetail(e) ==
  LET parsed == JsonParse(e.responseBody) IN
  IF parsed.raised \/ ~parsed.value.isObject THEN e.responseBody
  ELSE IF parsed.value.error = None THEN e.responseBody
  ELSE LET error == parsed.value.error[1] IN
       IF Truthy(error.message) THEN error.message ELSE error.json

\* A handleChatError that takes a status code alone for an API error.
handleChatErrorStatusOnly(e) ==
  IF TruthyNum(e.statusCode)
    THEN [stderr |-> <<(IF Truthy(e.name) THEN e.name ELSE "API Error")
                         \o " (" \o ToString(e.statusCode[1]) \o ")",
                       IF Truthy(e.responseBody) THEN apiErrorDetail(e) ELSE "undefined">>,
          exitCode |-> Some(1)]
  ELSE IF e.isError
    THEN [stderr |-> <<IF Truthy(e.name) THEN e.name ELSE "Error", e.message>>,
          exitCode |-> Some(1)]
    ELSE [stderr |-> <<"Error", e.text>>, exitCode |-> Some(1)]

\* handleChatError(error): the two lines it prints on stderr (without the
\* mark, indentation and colours) and the status it ends the process with.
handleChatError(e) ==
  IF TruthyNum(e.statusCode) /\ Truthy(e.responseBody)
    THEN [stderr |-> <<(IF Truthy(e.name) THEN e.name ELSE "API Error")
                         \o " (" \o ToString(e.statusCode[1]) \o ")",
                       apiErrorDetail(e)>>,
          exitCode |-> Some(1)]
  ELSE IF e.isError
    THEN [stderr |-> <<IF Truthy(e.name) THEN e.name ELSE "Error", e.message>>,
          exitCode |-> Some(1)]
    ELSE [stderr |-> <<"Error", e.text>>, exitCode |-> Some(1)]

\* The catch block around the command's for-await: the same report, except
\* that any value without a status code and body is printed by its name and
\* message; it ends the process with status 1.
streamErrorReport(e) ==
  IF TruthyNum(e.statusCode) /\ Truthy(e.responseBody)
    THEN [stderr |-> <<(IF Truthy(e.name) THEN e.name ELSE "API Error")
                         \o " (" \o ToString(e.statusCode[1]) \o ")",
                       apiErrorDetail(e)>>,
          exitCode |-> Some(1)]
    ELSE [stderr |-> <<IF Truthy(e.name) THEN e.name ELSE "Error", e.message>>,
          exitCode |-> Some(1)]

\* String.prototype.toUpperCase on ASCII text
LowerCase == "abcdefghijklmnopqrstuvwxyz"
UpperCase == "ABCDEFGHIJKLMNOPQRSTUVWXYZ"

UpperChar(c) ==
  IF \E i \in 1..26 : SubSeq(LowerCase, i, i) = c
    THEN LET i == CHOOSE k \in 1..26 : SubSeq(LowerCase, k, k) = c
         IN SubSeq(UpperCase, i, i)
    ELSE c

RECURSIVE ToUpperCase(_)
ToUpperCase(str) ==
  IF Len(str) = 0 THEN ""
  ELSE UpperChar(SubSeq(str, 1, 1)) \o ToUpperCase(SubSeq(str, 2, Len(str)))

\* What the command prints when it finds no provider: two heading lines and
\* one hint per entry of listAvailableProviders().
noProviderReport ==
  <<"No available providers found.", "Please set at least one API key:">>
    \o [i \in 1..Len(listAvailableProviders) |->
          listAvailableProviders[i].displayName \o ": Set "
            \o ToUpperCase(listAvailableProviders[i].name) \o "_API_KEY"]

\* A resolution that falls back to the first registered adapter, available
\* or not, when no name is given.
resolveProviderFirstRegistered(providerName) ==
  IF Truthy(providerName)
    THEN [method |-> "get", result |-> get(providerName)]
    ELSE [method |-> "getFirstAvailable", result |-> Return(providers[1].adapter)]

\* providerName ? registry.get(providerName) : registry.getFirstAvailable()
resolveProvider(providerName) ==
  IF Truthy(providerName)
    THEN [method |-> "get", result |-> get(providerName)]
    ELSE [method |-> "getFirstAvailable", result |-> Return(getFirstAvailable)]

\* A command that answers with chat whatever options.stream says.
completionMethodAlwaysChat(options) == "chat"

\* if (options.stream) ... streamChat ... else ... chat
completionMethod(options) == IF options.stream THEN "streamChat" ELSE "chat"

\* No chat command has been run.  invoked lists the registry and adapter
\* methods the command has called, handled is the value handleChatError was
\* given, and exitCode is the status of process.exit once it was called.
IdleCommand ==
  [pc |-> "idle", providerName |-> Undefined, provider |-> Null, stream |-> FALSE,
   invoked |-> <<>>, stdout |-> <<>>, stderr |-> <<>>, handled |-> None,
   exitCode |-> None]

\* The process ends inside handleChatError(error).
exitedHandling(c, error) ==
  [c EXCEPT !.pc = "exited", !.handled = Some(error),
            !.stderr = handleChatError(error).stderr,
            !.exitCode = handleChatError(error).exitCode]

\* ChatCommand.execute(providerName, message, options), up to the first
\* point where it waits for the vendor or ends the process.  gen is the text
\* the vendor's stream will carry if one is opened.
ChatCommandExecute(providerName, message, options, gen) ==
  /\ command.pc = "idle" /\ call.pc = "idle"
  /\ TotalVendorCalls < MaxCalls
  /\ LET resolved == resolveProvider(providerName)
         begun == [IdleCommand EXCEPT !.providerName = providerName,
                                      !.stream = options.stream,
                                      !.invoked = <<resolved.method>>]
     IN IF resolved.result.raised
          THEN /\ command' = exitedHandling(begun, asThrown(resolved.result.error))
               /\ UNCHANGED <<call, ret, client, vendorCalls, wire>>
          ELSE IF resolved.result.value = Null
          THEN /\ command' = [begun EXCEPT
                                !.pc = "exited",
                                !.invoked = @ \o <<"listAvailableProviders">>,
                                !.stderr = noProviderReport,
                                !.exitCode = Some(1)]
               /\ UNCHANGED <<call, ret, client, vendorCalls, wire>>
          ELSE LET a == resolved.result.value
                   checked == [begun EXCEPT !.provider = a,
                                            !.invoked = @ \o <<"assertAvailable">>]
               IN IF assertAvailable(a).raised
                    THEN /\ command' = exitedHandling(checked,
                                                      asThrown(assertAvailable(a).error))
                         /\ UNCHANGED <<call, ret, client, vendorCalls, wire>>
                    ELSE IF completionMethod(options) = "streamChat"
                    THEN /\ command' = [checked EXCEPT
                                          !.pc = "streaming",
                                          !.invoked = @ \o <<"streamChat">>,
                                          !.stdout = <<Config(a).displayName \o ":">>]
                         /\ streamPulled(
                              [IdleCall EXCEPT !.op = "streamChat", !.a = a,
                                               !.pc = "created",
                                               !.messages = userMessages(message),
                                               !.options = options], gen)
                    ELSE /\ command' = [checked EXCEPT
                                          !.pc = "chatting",
                                          !.invoked = @ \o <<"chat">>]
                         /\ chatCalled(a, userMessages(message), options)
                         /\ UNCHANGED wire
  /\ UNCHANGED <<retry, listing, env, providers, apiKey, cachedModels, modelsCacheTime,
                 now, pending, netCalls, yielded>>

\* The call the command waits for has finished: the command prints the
\* answer and returns, or reports the error and ends the process.
ChatCommandSettle ==
  /\ command.pc \in {"chatting", "streaming"}
  /\ call.pc = "done"
  /\ IF ret.result.raised
       THEN IF command.pc = "streaming"
              THEN command' = [command EXCEPT
                                 !.pc = "exited",
                                 !.stderr = streamErrorReport(asThrown(ret.result.error)).stderr,
                                 !.exitCode = streamErrorReport(asThrown(ret.result.error)).exitCode]
              ELSE command' = exitedHandling(command, asThrown(ret.result.error))
       ELSE IF command.pc = "streaming"
              THEN command' = [command EXCEPT !.pc = "returned",
                                              !.stdout = @ \o yielded \o <<"">>]
              ELSE command' = [command EXCEPT !.pc = "returned",
                                              !.stdout = <<"", ret.result.value.content>>]
  /\ UNCHANGED <<retry, listing, env, providers, apiKey, client, cachedModels,
                 modelsCacheTime, now, pending, netCalls, call, vendorCalls, wire,
                 yielded, ret>>

\* Values handleChatError may be given.
ThrownValues ==
  {asThrown(ApiCallError), asThrown(ConnectionError),
   asThrown(ApiKeyMissingError("OPENAI_API_KEY", "OpenAI")),
   asThrown(ProviderNotFoundError("nope", <<"openai">>)),
   [asThrown(ApiCallError) EXCEPT !.name = Undefined]}
  \cup {[asThrown(ApiCallError) EXCEPT !.responseBody = body] :
          body \in {BodyWithStringError, BodyWithBareError, BodyWithoutError,
                    BodyJsonNull, BodyNotJson, "", Undefined}}
  \cup {[asThrown(ApiCallError) EXCEPT !.statusCode = None],
        [asThrown(ApiCallError) EXCEPT !.statusCode = Some(0)],
        [isError |-> FALSE, name |-> Undefined, message |-> Undefined,
         statusCode |-> None, responseBody |-> Undefined, text |-> "boom"]}

\* handleChatError(error) is called on a caught value.
HandleChatError(error) ==
  /\ command.pc = "idle" /\ call.pc = "idle"
  /\ command' = exitedHandling(IdleCommand, error)
  /\ UNCHANGED <<retry, listing, env, providers, apiKey, client, cachedModels,
                 modelsCacheTime, now, pending, netCalls, call, vendorCalls, wire,
                 yielded, ret>>

Constructed(e) ==
  /\ env = e
  /\ providers = registerProviders
  /\ apiKey = [a \in Adapters |-> loadApiKey(Config(a), e)]
  /\ client = [a \in Adapters |-> None]
  /\ cachedModels = [a \in Adapters |-> None]
  /\ modelsCacheTime = [a \in Adapters |-> None]
  /\ now = StartTime
  /\ pending = {}
  /\ netCalls = [a \in Adapters |-> 0]
  /\ call = IdleCall
  /\ vendorCalls = [a \in Adapters |-> 0]
  /\ wire = ClosedWire
  /\ yielded = <<>>
  /\ retry = IdleRetry
  /\ listing = IdleListing
  /\ command = IdleCommand
  /\ ret = NoRet

PrimaryKeys == {Config(a).envKey : a \in Adapters}

AlternativeKeys == EnvKeys \ PrimaryKeys

\* Every environment: each variable unset, empty or holding a key.
AllEnvs == {EnvOf(S, E) : S \in SUBSET EnvKeys, E \in SUBSET EnvKeys}

\* Environments the chat behaviours are explored in: nothing set; a primary
\* variable set and an alternative standing in for an empty primary; a
\* primary set together with its alternative and an alternative standing in
\* for an unset primary.
ScenarioEnvs ==
  {EnvOf({}, {}),
   EnvOf({"OPENAI_API_KEY", "GOOGLE_API_KEY"}, {"GEMINI_API_KEY"}),
   EnvOf({"KIMI_API_KEY", "MOONSHOT_API_KEY", "CLAUDE_API_KEY"}, {"OPENAI_API_KEY"})}

InitRegistry == \E e \in AllEnvs : Constructed(e)

NextRegistry ==
  \/ \E name \in LookupNames : RegistryGet(name)
  \/ RegistryGetFirstAvailable
  \/ RegistryListAllProviders
  \/ RegistryListAvailableProviders

SpecRegistry == InitRegistry /\ [][NextRegistry]_vars

InitChat == \E e \in ScenarioEnvs : Constructed(e)

NextChat ==
  \/ \E a \in Adapters, m \in MessageLists, o \in ChatOptionsSet : ChatCall(a, m, o)
  \/ \E gen \in WholeTexts, u \in VendorUsages : ChatResolve(gen, u)
  \/ VendorRetry
  \/ \E e \in VendorErrors : ChatReject(e)
  \/ \E a \in Adapters, m \in MessageLists, o \in ChatOptionsSet : StreamChatCall(a, m, o)
  \/ \E gen \in Generations : StreamFirstPull(gen)
  \/ VendorDeliver
  \/ VendorEnd
  \/ \E e \in VendorErrors : VendorFail(e)
  \/ StreamYield
  \/ StreamReturn
  \/ StreamRaise
  \/ Forget

SpecChat == InitChat /\ [][NextChat]_vars

\* Environments the model-list behaviours are explored in.
ModelListEnvs ==
  {EnvOf({}, {}),
   EnvOf({"OPENAI_API_KEY", "ANTHROPIC_API_KEY"}, {}),
   EnvOf({"DEEPSEEK_API_KEY", "GOOGLE_API_KEY"}, {"OPENAI_API_KEY"})}

InitModels == \E e \in ModelListEnvs : Constructed(e)

NextModels ==
  \/ \E a \in Adapters : FetchCall(a)
  \/ \E req \in pending : \E r \in Responses(req.a) : FetchSettle(req, r)
  \/ \E t \in TimePoints : Tick(t)

SpecModels == InitModels /\ [][NextModels]_vars

\* The lifetime of the adapters: every operation of an adapter, in an
\* environment that changes after construction.
LifetimeEnvs ==
  {EnvOf({}, {}),
   EnvOf({"OPENAI_API_KEY", "GOOGLE_API_KEY"}, {"GEMINI_API_KEY"})}

\* The variables that change, and the adapters they belong to.
LifetimeKeys == {"OPENAI_API_KEY", "GOOGLE_API_KEY"}

LifetimeAdapters == {"OpenAIProvider", "GeminiProvider"}

InitAdapter == \E e \in LifetimeEnvs : Constructed(e)

NextAdapter ==
  \/ \E k \in LifetimeKeys : \E v \in {Undefined, SecretOf(k)} : SetEnv(k, v)
  \/ \E a \in LifetimeAdapters, id \in ModelIds : CreateModel(a, id)
  \/ \E a \in LifetimeAdapters, m \in MessageLists : ChatCall(a, m, NoOptions)
  \/ ChatResolve(<<"ab">>, None)
  \/ \E a \in LifetimeAdapters, m \in MessageLists : StreamChatCall(a, m, NoOptions)
  \/ StreamFirstPull(<<"a">>)
  \/ VendorDeliver
  \/ VendorEnd
  \/ StreamYield
  \/ StreamReturn
  \/ Forget
  \/ \E a \in LifetimeAdapters : FetchCall(a)
  \/ \E req \in pending : \E r \in {Rejected, NotJson} : FetchSettle(req, r)

SpecAdapter == InitAdapter /\ [][NextAdapter]_vars

InitRetry == Constructed(EnvOf({}, {}))

NextRetry ==
  \/ \E options \in RetryOptionsSet : WithRetryCall(options)
  \/ RetryFnResolve("ok")
  \/ \E e \in VendorErrors : RetryFnReject(e)
  \/ RetryTimerFires
  \/ RetryForget
  \/ \E ms \in {500, 1500} : Advance(ms)

SpecRetry == InitRetry /\ [][NextRetry]_vars

\* Provider names given on the command line: none, registered ones, an
\* unknown one.
CommandNames == {Undefined, "openai", "gemini", "grok", "nope"}

\* Options of the chat command: plain, streamed, streamed with a model.
CommandOptionsSet ==
  {NoOptions, [NoOptions EXCEPT !.stream = TRUE],
   [NoOptions EXCEPT !.stream = TRUE, !.model = "custom-model"]}

InitCommand == \E e \in ScenarioEnvs : Constructed(e)

NextCommand ==
  \/ \E name \in CommandNames, message \in CliMessages, o \in CommandOptionsSet,
        gen \in Generations : ChatCommandExecute(name, message, o, gen)
  \/ \E gen \in WholeTexts, u \in VendorUsages : ChatResolve(gen, u)
  \/ VendorRetry
  \/ \E e \in VendorErrors : ChatReject(e)
  \/ VendorDeliver
  \/ VendorEnd
  \/ \E e \in VendorErrors : VendorFail(e)
  \/ StreamYield
  \/ StreamReturn
  \/ StreamRaise
  \/ ChatCommandSettle
  \/ \E error \in ThrownValues : HandleChatError(error)

SpecCommand == InitCommand /\ [][NextCommand]_vars

\* Environments the list-providers command is run in: two adapters that
\* query their vendor; one that does together with one that keeps a built-in
\* list; none.
ListEnvs ==
  {EnvOf({"OPENAI_API_KEY", "GOOGLE_API_KEY"}, {"GEMINI_API_KEY"}),
   EnvOf({"OPENAI_API_KEY", "ANTHROPIC_API_KEY", "DEEPSEEK_API_KEY"}, {}),
   EnvOf({}, {"OPENAI_API_KEY"})}

InitList == \E e \in ListEnvs : Constructed(e)

NextList ==
  \/ ListProvidersExecute
  \/ \E req \in pending : \E r \in Responses(req.a) : ListProvidersSettle(req, r)
  \/ RegistryListAvailableProviders
  \/ \E t \in TimePoints : Tick(t)

SpecList == InitList /\ [][NextList]_vars

----------------------------------------------------------------------------
(* Properties *)

\* The short identifiers in the order the registry registers them.
RegistrationOrder == <<"openai", "gemini", "grok", "deepseek", "kimi", "anthropic">>

AdapterNamed(n) == CHOOSE a \in Adapters : Config(a).name = n

\* The credential variables of an adapter, primary first.
CredentialKeys(a) == <<Config(a).envKey>> \o Config(a).alternativeEnvKeys

\* No credential variable of the adapter holds a non-empty value.
NoCredential(a) == \A k \in Range(CredentialKeys(a)) : ~Truthy(env[k])

Min(S) == CHOOSE x \in S : \A y \in S : x <= y

\* C1: an adapter constructed with no credential variable set is not
\* available, no vendor call is ever issued and no client is ever built for
\* it, and chat() and streamChat() on it end by raising ApiKeyMissingError
\* naming the adapter's primary variable (OPENAI_API_KEY for openai).
C1_NoCredentialFailsBeforeVendorCall ==
  \A a \in Adapters :
    NoCredential(a) =>
      /\ ~isAvailable(a)
      /\ vendorCalls[a] = 0
      /\ client[a] = None
      /\ call.a = a =>
           /\ call.pc \in {"created", "done"}
           /\ call.request = None
           /\ wire.status = "closed"
           /\ call.pc = "done" =>
                /\ ret.op \in {"chat", "streamChat"}
                /\ ret.result.raised
                /\ ret.result.error.code = "API_KEY_MISSING"
                /\ ret.result.error.details.envKey = Config(a).envKey
                /\ a = "OpenAIProvider" =>
                     ret.result.error.details.envKey = "OPENAI_API_KEY"

C1_Witness ==
  /\ call.op = "chat" /\ call.a = "OpenAIProvider" /\ call.pc = "done"
  /\ env["OPENAI_API_KEY"] = Undefined
  /\ ret.result.raised
  /\ ret.result.error.details.envKey = "OPENAI_API_KEY"

\* C2: getFirstAvailable() returns the earliest adapter in registration
\* order among the available ones, and null exactly when none is available.
C2_FirstAvailableIsEarliestRegistered ==
  ret.op = "getFirstAvailable" =>
    LET avail == {i \in 1..Len(RegistrationOrder) :
                    isAvailable(AdapterNamed(RegistrationOrder[i]))}
    IN /\ ~ret.result.raised
       /\ IF avail = {}
            THEN ret.result.value = Null
            ELSE ret.result.value = AdapterNamed(RegistrationOrder[Min(avail)])

C2_Witness ==
  /\ ret.op = "getFirstAvailable"
  /\ ret.result.value = "DeepseekProvider"
  /\ isAvailable("AnthropicProvider")
  /\ ~isAvailable("OpenAIProvider")

\* C3: get(name) returns the adapter whose short identifier is exactly name
\* when name is registered, and otherwise raises ProviderNotFound carrying
\* name and the registered names in registration order.
C3_GetIsExactMatchOrNotFound ==
  ret.op = "get" =>
    IF ret.arg \in Range(RegistrationOrder)
      THEN /\ ~ret.result.raised
           /\ Config(ret.result.value).name = ret.arg
      ELSE /\ ret.result.raised
           /\ ret.result.error.code = "PROVIDER_NOT_FOUND"
           /\ ret.result.error.details.requested = ret.arg
           /\ ret.result.error.details.available = RegistrationOrder

C3_Witness ==
  /\ ret.op = "get" /\ ret.arg = "OpenAI"
  /\ ret.result.raised
  /\ ret.result.error.details.available = RegistrationOrder

\* The live model-list request failed: fetch() rejected, the status was not
\* 2xx, or the payload was malformed (not JSON, no list, or a listed chat
\* model without an identifier).
Malformed(a, json) ==
  \/ json = None
  \/ /\ a = "OpenAIProvider"
     /\ \/ json[1].data = None
        \/ \E i \in 1..Len(json[1].data[1]) : json[1].data[1][i].id = Undefined
  \/ /\ a = "GeminiProvider"
     /\ \/ json[1].models = None
        \/ \E i \in 1..Len(json[1].models[1]) :
             /\ json[1].models[1][i].name = Undefined
             /\ json[1].models[1][i].supportedGenerationMethods # None

LiveFetchFailed(a, r) == r.rejects \/ ~r.ok \/ Malformed(a, r.json)

\* C4: on an available OpenAI or Gemini adapter holding a cache entry (which
\* only a live call can have written), a fetchAvailableModels() call begun
\* less than one hour after the cache timestamp issues no request and
\* returns the cached list, so two calls in the window cost one live call;
\* a call begun one hour or more after the timestamp issues one more.
C4_OneLiveCallPerFreshnessWindow ==
  /\ [](\A a \in LiveListing : cachedModels[a] # None =>
          /\ netCalls[a] >= 1
          /\ modelsCacheTime[a] # None)
  /\ [][\A a \in LiveListing :
          (isAvailable(a) /\ cachedModels[a] # None /\ FetchCall(a)) =>
            LET elapsed == now - modelsCacheTime[a][1] IN
            /\ elapsed < 60 * 60 * 1000 =>
                 /\ netCalls' = netCalls
                 /\ pending' = pending
                 /\ ret'.result = Return(cachedModels[a][1])
            /\ elapsed >= 60 * 60 * 1000 =>
                 /\ netCalls'[a] = netCalls[a] + 1
                 /\ Cardinality(pending') = Cardinality(pending) + 1]_vars

C4_Witness ==
  \E req \in pending :
    /\ req.a = "OpenAIProvider"
    /\ netCalls[req.a] = 2
    /\ cachedModels[req.a] # None
    /\ req.at - modelsCacheTime[req.a][1] = 60 * 60 * 1000

\* C5: when the live model-list request fails, fetchAvailableModels() does
\* not raise and returns exactly the static catalog getAvailableModels().
C5_FailedFetchReturnsStaticCatalog ==
  (/\ ret.op = "fetchAvailableModels"
   /\ ret.response # None
   /\ LiveFetchFailed(ret.arg, ret.response[1]))
    => /\ ~ret.result.raised
       /\ ret.result.value = getAvailableModels(ret.arg)

C5_Witness ==
  /\ ret.op = "fetchAvailableModels"
  /\ ret.response = Some(Status500)
  /\ cachedModels[ret.arg] # None
  /\ cachedModels[ret.arg][1] # getAvailableModels(ret.arg)
  /\ ret.result = Return(getAvailableModels(ret.arg))

\* C6: a step in which a live model-list request settles (leaves the set of
\* requests in flight) with a failure leaves every adapter's cached list and
\* cache timestamp exactly as they were.
C6_FailedFetchLeavesCacheUnchanged ==
  [][(/\ pending' # pending /\ pending' \subseteq pending
      /\ ret'.op = "fetchAvailableModels" /\ ret'.response # None
      /\ LiveFetchFailed(ret'.arg, ret'.response[1]))
       => /\ cachedModels' = cachedModels
          /\ modelsCacheTime' = modelsCacheTime]_vars

C6_Witness ==
  /\ ret.op = "fetchAvailableModels"
  /\ ret.response = Some(Rejected)
  /\ cachedModels[ret.arg] # None
  /\ now - modelsCacheTime[ret.arg][1] >= CACHE_DURATION

\* C7: the credential an adapter holds, and hands to its client, is the
\* first non-empty value among its primary variable and then its
\* alternatives in order; the adapter is available exactly when there is one.
C7_FirstNonEmptyCredentialIsUsed ==
  \A a \in Adapters :
    LET keys == CredentialKeys(a)
        set == {i \in 1..Len(keys) : Truthy(env[keys[i]])}
    IN /\ isAvailable(a) <=> set # {}
       /\ set # {} => apiKey[a] = env[keys[Min(set)]]
       /\ client[a] # None =>
            /\ set # {}
            /\ client[a][1].apiKey = env[keys[Min(set)]]
       /\ (call.a = a /\ call.request # None) =>
            call.request[1].model.client.apiKey = env[keys[Min(set)]]

C7_Witness ==
  /\ ~Truthy(env["GEMINI_API_KEY"])
  /\ Truthy(env["GOOGLE_API_KEY"])
  /\ isAvailable("GeminiProvider")
  /\ call.a = "GeminiProvider" /\ call.request # None
  /\ call.request[1].model.client.apiKey = env["GOOGLE_API_KEY"]

\* C8: what streamChat has yielded is always exactly the first fragments of
\* the vendor's generation, one yielded fragment per arrived fragment, and
\* when the stream completes normally it is the whole generation, whose
\* concatenation is the content chat returns for the same generation.
C8_StreamYieldsFragmentsAsReceived ==
  call.op = "streamChat" =>
    /\ Len(yielded) <= wire.delivered
    /\ Len(yielded) = wire.taken
    /\ yielded = SubSeq(call.generation, 1, Len(yielded))
    /\ (call.pc = "done" /\ ~ret.result.raised) =>
         /\ yielded = call.generation
         /\ Concat(yielded) =
              chatResponse(call.a, call.modelId,
                           GenerateTextResult(call.generation, None)).content

C8_Witness ==
  /\ call.op = "streamChat" /\ call.pc = "done"
  /\ ~ret.result.raised
  /\ yielded = <<"ab", "a">>

\* C9: once the vendor stream has failed, streamChat never ends normally: it
\* ends by raising the vendor's error, and the fragments yielded before are
\* the first fragments that arrived.
C9_MidStreamFailureRaises ==
  (call.op = "streamChat" /\ wire.status = "failed") =>
    /\ call.pc = "done" =>
         /\ ret.op = "streamChat"
         /\ ret.result.raised
         /\ ret.result.error = wire.error[1]
    /\ Len(yielded) <= wire.delivered
    /\ yielded = SubSeq(call.generation, 1, Len(yielded))

C9_Witness ==
  /\ call.op = "streamChat" /\ call.pc = "done"
  /\ wire.status = "failed"
  /\ Len(yielded) = 1
  /\ ret.result = Throw(ApiCallError)

\* C10: when the vendor reports usage without a total, the ChatResponse's
\* totalTokens is promptTokens + completionTokens, a missing input or output
\* count counting as 0; when the vendor reports no usage, usage is absent.
C10_TotalTokensIsSumWhenNotReported ==
  (call.op = "chat" /\ call.pc = "done" /\ ~ret.result.raised) =>
    LET reported == call.vendorResult[1].usage
        usage == ret.result.value.usage
        Count(c) == IF c = None THEN 0 ELSE c[1]
    IN /\ reported = None <=> usage = None
       /\ (reported # None /\ reported[1].totalTokens = None) =>
            /\ usage[1].promptTokens = Count(reported[1].inputTokens)
            /\ usage[1].completionTokens = Count(reported[1].outputTokens)
            /\ usage[1].totalTokens =
                 usage[1].promptTokens + usage[1].completionTokens

C10_Witness ==
  /\ call.op = "chat" /\ call.pc = "done" /\ ~ret.result.raised
  /\ call.vendorResult[1].usage =
       Some([inputTokens |-> Some(1), outputTokens |-> Some(1), totalTokens |-> None])
  /\ ret.result.value.usage[1].totalTokens = 2

\* C11 as stated: createModel(modelId?) never fails on its own, whatever the
\* state of the adapter, an adapter with no credential included.
C11_CreateModelNeverFails ==
  ret.op = "createModel" => ~ret.result.raised

\* C11 as amended: createModel(modelId?) on an adapter holding a credential
\* never fails, builds the client on first use and returns a handle for
\* modelId, or for the default model when none is given; on an adapter
\* holding no credential it raises ApiKeyMissingError naming the primary
\* variable and builds no client.
C11_CreateModelFailsOnlyWithoutCredential ==
  ret.op = "createModel" =>
    LET a == ret.arg IN
    IF isAvailable(a)
      THEN /\ ~ret.result.raised
           /\ ret.result.value.modelId =
                IF Truthy(ret.modelId) THEN ret.modelId ELSE Config(a).defaultModel
           /\ client[a] # None
           /\ ret.result.value.client = client[a][1]
      ELSE /\ ret.result.raised
           /\ ret.result.error.code = "API_KEY_MISSING"
           /\ ret.result.error.details.envKey = Config(a).envKey
           /\ client[a] = None

C11_Witness ==
  /\ ret.op = "createModel" /\ ret.arg = "OpenAIProvider"
  /\ ~isAvailable("OpenAIProvider")
  /\ ret.result.raised
  /\ Truthy(env["OPENAI_API_KEY"])

\* C12: when options.maxTokens is present the request chat and streamChat
\* hand to the vendor completion call carries it as the bound on the
\* generated output, and when it is absent the request carries no bound.
C12_MaxTokensIsForwarded ==
  call.request # None =>
    IF call.options.maxTokens # None
      THEN /\ "maxTokens" \in DOMAIN call.request[1]
           /\ call.request[1].maxTokens = call.options.maxTokens
      ELSE \/ "maxTokens" \notin DOMAIN call.request[1]
           \/ call.request[1].maxTokens = None

\* C13: when options.systemPrompt is present the message list sent to the
\* vendor is a system-role entry with that text followed by the single
\* user-role message built from the command-line text; when it is absent the
\* list is exactly that one user-role message.
C13_SystemPromptPrecedesUserMessage ==
  call.request # None =>
    \E message \in CliMessages :
      /\ call.messages = userMessages(message)
      /\ call.request[1].messages =
           IF Truthy(call.options.systemPrompt)
             THEN <<[role |-> "system", content |-> call.options.systemPrompt]>>
                    \o userMessages(message)
             ELSE userMessages(message)

C15_WaitGrowsExponentially ==
  retry.pc # "idle" =>
    /\ Len(retry.started) <= retry.maxRetries \/ retry.started = <<>>
    /\ Len(retry.waits) < retry.maxRetries \/ retry.waits = <<>>
    /\ Len(retry.waits) <= Len(retry.failed)
    /\ \A k \in 0..(Len(retry.waits) - 1) :
         /\ retry.waits[k + 1] = retry.delay * Pow(retry.backoff, k)
         /\ (retry.delay = 1000 /\ retry.backoff = 2 /\ k < 3) =>
              retry.waits[k + 1] = <<1000, 2000, 4000>>[k + 1]
         /\ k + 2 <= Len(retry.started) =>
              retry.started[k + 2] >= retry.failed[k + 1] + retry.waits[k + 1]

C15_Witness ==
  /\ retry.pc = "running"
  /\ retry.maxRetries = 3
  /\ retry.attempt = 2
  /\ retry.waits = <<1000, 2000>>
  /\ retry.started[3] - retry.failed[2] = 2000

\* The list a successful live response of adapter a yields: its chat models,
\* or the static catalog when it names none.
LiveList(a, r) ==
  LET listed == parseModels(a, r.json).value IN
  IF listed = <<>> THEN getAvailableModels(a) ELSE listed

\* C16: the list-providers fan-out waits only for requests in flight and,
\* once they have all settled, has one result per registered provider in
\* registration order: a provider whose request failed shows its static
\* catalog, a provider whose request succeeded shows the list of its own
\* response whatever became of the others, and a provider with no
\* credential shows its static catalog.
C16_FanOutIsolatesFailures ==
  /\ listing.pc = "waiting" =>
       /\ listing.requests # {}
       /\ listing.requests = {req.id : req \in pending}
  /\ listing.pc = "done" =>
       /\ listing.requests = {}
       /\ Len(listing.modelResults) = Len(RegistrationOrder)
       /\ \A i \in 1..Len(RegistrationOrder) :
            LET a == AdapterNamed(RegistrationOrder[i])
                r == listing.responses[a]
                entry == listing.modelResults[i]
            IN /\ entry.name = RegistrationOrder[i]
               /\ ~isAvailable(a) => entry.models = getAvailableModels(a)
               /\ r # None =>
                    entry.models = IF LiveFetchFailed(a, r[1])
                                     THEN getAvailableModels(a)
                                     ELSE LiveList(a, r[1])

C16_Witness ==
  /\ listing.pc = "done"
  /\ listing.responses["OpenAIProvider"] = Some(Status500)
  /\ listing.responses["GeminiProvider"] # None
  /\ listing.modelResults[1].models = getAvailableModels("OpenAIProvider")
  /\ listing.modelResults[2].models = <<"gemini-3-pro", "gemini-2.5-flash">>

\* C17: in every reachable state an adapter that is not isAvailable() has
\* issued no model-list request, has none in flight and holds no cache
\* entry, and its fetchAvailableModels() has returned getAvailableModels()
\* without waiting for any response.
C17_UnavailableFetchIsStaticAndOffline ==
  \A a \in Adapters :
    ~isAvailable(a) =>
      /\ netCalls[a] = 0
      /\ \A req \in pending : req.a # a
      /\ cachedModels[a] = None
      /\ modelsCacheTime[a] = None
      /\ (ret.op = "fetchAvailableModels" /\ ret.arg = a) =>
           /\ ret.result = Return(getAvailableModels(a))
           /\ ret.response = None

C17_Witness ==
  /\ ret.op = "fetchAvailableModels" /\ ret.arg = "AnthropicProvider"
  /\ ~isAvailable("AnthropicProvider")
  /\ ret.result = Return(getAvailableModels("AnthropicProvider"))
  /\ cachedModels["GeminiProvider"] # None
  /\ now > StartTime

\* C18: no step - a change of the environment, or any step of chat,
\* streamChat, createModel or fetchAvailableModels - changes the credential an
\* adapter holds or what its isAvailable() returns.
C18_AvailabilityNeverChanges ==
  [][\A a \in Adapters :
       /\ apiKey'[a] = apiKey[a]
       /\ isAvailable(a)' = isAvailable(a)]_vars

C18_Witness ==
  /\ isAvailable("OpenAIProvider")
  /\ env["OPENAI_API_KEY"] = Undefined
  /\ call.op = "chat" /\ call.a = "OpenAIProvider" /\ call.pc = "done"
  /\ ~ret.result.raised

\* C19: listAvailableProviders() returns one entry per registered adapter in
\* registration order, with the adapter's names, available equal to
\* isAvailable() and models equal to the static catalog, whatever the
\* adapter's cache holds; the step in which it returns issues no request and
\* leaves every cache entry as it was.
C19_ListingIsStaticAndLeavesCaches ==
  /\ [](ret.op = "listAvailableProviders" =>
          /\ ~ret.result.raised
          /\ Len(ret.result.value) = Len(RegistrationOrder)
          /\ \A i \in 1..Len(RegistrationOrder) :
               LET a == AdapterNamed(RegistrationOrder[i])
                   entry == ret.result.value[i]
               IN /\ entry.name = RegistrationOrder[i]
                  /\ entry.displayName = Config(a).displayName
                  /\ entry.available = isAvailable(a)
                  /\ entry.models = getAvailableModels(a))
  /\ [][(ret.op # "listAvailableProviders" /\ ret'.op = "listAvailableProviders") =>
          /\ cachedModels' = cachedModels
          /\ modelsCacheTime' = modelsCacheTime
          /\ pending' = pending
          /\ netCalls' = netCalls]_vars

C19_Witness ==
  /\ ret.op = "listAvailableProviders"
  /\ cacheValid("OpenAIProvider", now)
  /\ cachedModels["OpenAIProvider"][1] # getAvailableModels("OpenAIProvider")
  /\ ret.result.value[1].models = getAvailableModels("OpenAIProvider")
  /\ ret.result.value[1].available

\* C20: the registry always maps exactly the names openai, gemini, grok,
\* deepseek, kimi, anthropic, in that order, each to its own adapter and no
\* adapter twice; listAllProviders() returns these names in that order; and
\* no get, listAllProviders, listAvailableProviders or getFirstAvailable call
\* changes the mapping.
C20_RegistryIsFixedAndOrdered ==
  /\ [](/\ Len(providers) = Len(RegistrationOrder)
        /\ \A i \in 1..Len(providers) :
             /\ providers[i].key = RegistrationOrder[i]
             /\ Config(providers[i].adapter).name = providers[i].key
        /\ \A i, j \in 1..Len(providers) :
             providers[i].adapter = providers[j].adapter => i = j
        /\ {providers[i].adapter : i \in 1..Len(providers)} = Adapters
        /\ listAllProviders = RegistrationOrder
        /\ ret.op = "listAllProviders" => ret.result = Return(RegistrationOrder))
  /\ [][providers' = providers]_vars

C20_Witness ==
  /\ ret.op = "listAllProviders"
  /\ ret.result.value = <<"openai", "gemini", "grok", "deepseek", "kimi", "anthropic">>
  /\ providers[6].adapter = "AnthropicProvider"

\* C21: an adapter's cached list and cache timestamp are always both absent
\* or both present, and the timestamp is never in the future; the step in
\* which a live fetch completes successfully, or in which the Anthropic
\* adapter rebuilds its list, leaves the cache holding exactly the list the
\* call returns, stamped with the time of that step.
C21_SuccessfulFetchWritesListAndStamp ==
  /\ [](\A a \in Adapters :
          /\ cachedModels[a] = None <=> modelsCacheTime[a] = None
          /\ modelsCacheTime[a] # None => modelsCacheTime[a][1] <= now)
  /\ [][(/\ ret'.op = "fetchAvailableModels"
          /\ \/ /\ pending' # pending /\ pending' \subseteq pending
                /\ ret'.response # None
                /\ ~LiveFetchFailed(ret'.arg, ret'.response[1])
             \/ /\ ret'.arg = "AnthropicProvider"
                /\ isAvailable("AnthropicProvider")
                /\ ~cacheValid("AnthropicProvider", now)
                /\ FetchCall("AnthropicProvider"))
           => /\ cachedModels'[ret'.arg] = Some(ret'.result.value)
              /\ modelsCacheTime'[ret'.arg] = Some(now)
              /\ now' = now]_vars

C21_Witness ==
  /\ ret.op = "fetchAvailableModels" /\ ret.arg = "OpenAIProvider"
  /\ ret.response # None
  /\ ~LiveFetchFailed(ret.arg, ret.response[1])
  /\ netCalls["OpenAIProvider"] = 2
  /\ cachedModels["OpenAIProvider"] = Some(ret.result.value)
  /\ modelsCacheTime["OpenAIProvider"] = Some(now)
  /\ now >= StartTime + CACHE_DURATION

\* C22: the request handed to the vendor call carries the reasoning-effort
\* provider option exactly when options.reasoningEffort is set and the
\* adapter is the openai adapter, and then it carries the caller's value; for
\* every other adapter, and whenever the option is absent, the request has no
\* provider option at all.
C22_ReasoningEffortOnlyForOpenAI ==
  call.request # None =>
    LET request == call.request[1]
        wanted == /\ Truthy(call.options.reasoningEffort)
                  /\ Config(call.a).name = "openai"
    IN /\ wanted => request.providerOptions =
                       Some([openai |-> [reasoningEffort |-> call.options.reasoningEffort]])
       /\ ~wanted => request.providerOptions = None

C22_Witness ==
  /\ call.request # None
  /\ call.a = "GeminiProvider"
  /\ call.options.reasoningEffort = "high"
  /\ call.request[1].providerOptions = None
  /\ vendorCalls["GeminiProvider"] >= 1

\* C23: an adapter without a credential never holds a client; the client an
\* adapter holds is the first one it constructed; once held it is never
\* replaced by any createModel, chat or streamChat call; and every model
\* handle and vendor request made on the adapter uses that held client.
C23_ClientBuiltOnceAndReused ==
  /\ [](\A a \in Adapters :
          /\ ~isAvailable(a) => client[a] = None
          /\ client[a] # None =>
                /\ client[a][1].instance = 1
                /\ client[a][1].apiKey = apiKey[a]
                /\ (call.a = a /\ call.request # None)
                     => call.request[1].model.client = client[a][1]
                /\ (ret.op = "createModel" /\ ret.arg = a /\ ~ret.result.raised)
                     => ret.result.value.client = client[a][1])
  /\ [][\A a \in Adapters : client[a] # None => client'[a] = client[a]]_vars

C23_Witness ==
  /\ client["OpenAIProvider"] # None
  /\ vendorCalls["OpenAIProvider"] = 2
  /\ call.op = "streamChat" /\ call.request # None
  /\ call.request[1].model.client = client["OpenAIProvider"][1]

\* C27: on an available OpenAI or Gemini adapter, every fetchAvailableModels()
\* call begun while the cache is empty or stale issues its own live request,
\* whether or not another request for the adapter is already in flight; the
\* cache of such an adapter changes only in a step where one of its requests
\* completes successfully, and that step replaces whatever the cache holds,
\* even an entry written after the request began, by that response's list
\* stamped with the time of completion, so the request that completes
\* successfully last determines the cache.
C27_ConcurrentFetchesEachQueryAndLastWins ==
  [][\A a \in LiveListing :
       /\ (isAvailable(a) /\ ~cacheValid(a, now) /\ FetchCall(a)) =>
            /\ netCalls'[a] = netCalls[a] + 1
            /\ \E req \in pending' \ pending : req.a = a /\ req.at = now
       /\ (cachedModels'[a] # cachedModels[a] \/ modelsCacheTime'[a] # modelsCacheTime[a]) =>
            /\ \E req \in pending \ pending' : req.a = a
            /\ ret'.op = "fetchAvailableModels" /\ ret'.arg = a
            /\ ret'.response # None
            /\ ~LiveFetchFailed(a, ret'.response[1])
       /\ (/\ \E req \in pending \ pending' : req.a = a
           /\ ret'.response # None
           /\ ~LiveFetchFailed(a, ret'.response[1])) =>
            /\ cachedModels'[a] = Some(LiveList(a, ret'.response[1]))
            /\ modelsCacheTime'[a] = Some(now)]_vars

\* Two calls began on an empty cache; one has completed and written the
\* cache, the other is still in flight.
C27_Witness ==
  \E req \in pending :
    /\ req.a = "OpenAIProvider"
    /\ req.at = StartTime
    /\ netCalls["OpenAIProvider"] = 2
    /\ cachedModels["OpenAIProvider"] # None
    /\ modelsCacheTime["OpenAIProvider"] = Some(StartTime)

\* C28: a step in which a live request fails on an adapter whose cache is
\* empty or stale returns the static catalog, not the stale list, and leaves
\* the cache empty or stale; and while that failure is the adapter's latest
\* outcome and no later success has refreshed the cache, the next
\* fetchAvailableModels() call on the adapter issues a live request again,
\* however soon after the failure it is made.
C28_FailureIsNotCached ==
  /\ [][\A a \in LiveListing :
          (/\ \E req \in pending \ pending' : req.a = a
           /\ ret'.response # None
           /\ LiveFetchFailed(a, ret'.response[1])
           /\ ~cacheValid(a, now)) =>
            /\ ret'.result = Return(getAvailableModels(a))
            /\ ~(cacheValid(a, now))'
            /\ now' = now]_vars
  /\ [][\A a \in LiveListing :
          (/\ ret.op = "fetchAvailableModels" /\ ret.arg = a
           /\ ret.response # None
           /\ LiveFetchFailed(a, ret.response[1])
           /\ cachedModels[a] = None \/ modelsCacheTime[a][1] + CACHE_DURATION <= now
           /\ FetchCall(a)) =>
            /\ netCalls'[a] = netCalls[a] + 1
            /\ \E req \in pending' \ pending : req.a = a /\ req.at = now]_vars

\* A request failed on a stale cache and, with no time passed since, the
\* next call has issued a new request.
C28_Witness ==
  \E req \in pending :
    /\ req.a = "OpenAIProvider"
    /\ req.at = now
    /\ netCalls["OpenAIProvider"] = 2
    /\ cachedModels["OpenAIProvider"] = None
    /\ \A other \in pending : other = req

\* C29: withRetry with maxRetries >= 1 has called fn at least once and at
\* most maxRetries times; when it has returned, the value is that of its
\* last call of fn, every earlier call having failed; when it has thrown,
\* fn was called maxRetries times, a wait followed every failure but the
\* last, and the error thrown is the one the last call failed with; with
\* maxRetries <= 0 it throws 'Retry failed' without calling fn, and in no
\* other case.
C29_RetryBoundsAndOutcome ==
  retry.pc # "idle" =>
    /\ retry.maxRetries >= 1 =>
         /\ Len(retry.started) >= 1
         /\ Len(retry.started) <= retry.maxRetries
         /\ Len(retry.waits) < retry.maxRetries
         /\ retry.pc = "running" => Len(retry.started) = Len(retry.failed) + 1
         /\ (retry.pc = "done" /\ ~ret.result.raised) =>
              /\ Len(retry.started) = Len(retry.failed) + 1
              /\ Len(retry.waits) = Len(retry.failed)
         /\ (retry.pc = "done" /\ ret.result.raised) =>
              /\ Len(retry.started) = retry.maxRetries
              /\ Len(retry.failed) = retry.maxRetries
              /\ Len(retry.waits) = retry.maxRetries - 1
              /\ retry.caught # None
              /\ ret.result = Throw(retry.caught[1])
    /\ retry.maxRetries <= 0 =>
         /\ retry.pc = "done"
         /\ retry.started = <<>>
         /\ ret.result = Throw("Retry failed")

C29_Witness ==
  /\ retry.pc = "done"
  /\ retry.maxRetries = 2
  /\ Len(retry.started) = 2
  /\ Len(retry.waits) = 1
  /\ ret.result = Throw(ConnectionError)

\* C30: the step in which streamChat(...) is called, on any adapter, only
\* creates the sequence: nothing is raised, no client is built and no vendor
\* call is made; a sequence that has not been pulled has no request and no
\* open stream; and the step of its first pull raises the missing-credential
\* error without a vendor call when the adapter is unavailable, and otherwise
\* resolves the model and makes the one vendor streaming call.
C30_StreamChatIsLazy ==
  /\ [][(call.pc = "idle" /\ call'.op = "streamChat") =>
          /\ call'.pc = "created"
          /\ ret'.op = "none"
          /\ vendorCalls' = vendorCalls
          /\ client' = client
          /\ wire' = wire]_vars
  /\ []((call.op = "streamChat" /\ call.pc = "created") =>
          /\ call.request = None
          /\ call.attempts = 0
          /\ wire.status = "closed")
  /\ [][(call.op = "streamChat" /\ call.pc = "created" /\ call' # call) =>
          IF isAvailable(call.a)
            THEN /\ call'.pc = "streaming"
                 /\ call'.request # None
                 /\ call'.modelId = resolveModelId(call.a, call.options)
                 /\ vendorCalls'[call.a] = vendorCalls[call.a] + 1
                 /\ wire'.status = "open"
            ELSE /\ call'.pc = "done"
                 /\ ret'.op = "streamChat"
                 /\ ret'.result.raised
                 /\ ret'.result.error.code = "API_KEY_MISSING"
                 /\ vendorCalls' = vendorCalls
                 /\ client' = client]_vars

C30_Witness ==
  /\ call.op = "streamChat" /\ call.pc = "done"
  /\ ~isAvailable(call.a)
  /\ call.request = None
  /\ ret.op = "streamChat" /\ ret.result.raised
  /\ ret.result.error.code = "API_KEY_MISSING"
  /\ TotalVendorCalls = 0

C25_AtMostOneCompletionCall ==
  command.invoked # <<>> =>
    LET completions ==
          SelectSeq(command.invoked, LAMBDA m : m \in {"chat", "streamChat"})
        named == Truthy(command.providerName)
        resolutionFails ==
          IF named THEN get(command.providerName).raised ELSE getFirstAvailable = Null
        checkFails ==
          /\ ~resolutionFails
          /\ ~isAvailable(IF named THEN get(command.providerName).value
                          ELSE getFirstAvailable)
    IN /\ Len(completions) <= 1
       /\ TotalVendorCalls <= 1
       /\ (resolutionFails \/ checkFails) =>
            /\ completions = <<>>
            /\ call.op = "none"
            /\ TotalVendorCalls = 0
            /\ command.pc = "exited" /\ command.exitCode = Some(1)
       /\ ~(resolutionFails \/ checkFails) =>
            /\ completions = <<IF command.stream THEN "streamChat" ELSE "chat">>
            /\ call.op = completions[1]
            /\ TotalVendorCalls = 1

C25_Witness ==
  /\ command.pc = "returned"
  /\ command.stream
  /\ command.invoked = <<"get", "assertAvailable", "streamChat">>
  /\ call.op = "streamChat"
  /\ TotalVendorCalls = 1
  /\ Len(yielded) = 2

\* C26: once handleChatError has been given a value the process has ended
\* with status 1 and the command does nothing more.  If the value has both
\* a status code and a response body (both truthy) the report is headed by
\* its name (or 'API Error') with the status, and details the message parsed
\* from the body, or the error entry itself when that has no message, or
\* the raw body when the body is not JSON or has no error entry; any other
\* value is reported generically, by name and message, or as 'Error' with
\* its string form when it is not an Error.
C26_HandleChatErrorReportsAndExits ==
  /\ [](command.handled # None =>
          LET e == command.handled[1]
              api == /\ e.statusCode # None /\ e.statusCode[1] # 0
                     /\ e.responseBody # Undefined /\ e.responseBody # ""
              body == e.responseBody
          IN /\ command.pc = "exited"
             /\ command.exitCode = Some(1)
             /\ Len(command.stderr) = 2
             /\ api =>
                  /\ command.stderr[1] =
                       (IF e.name = Undefined THEN "API Error" ELSE e.name)
                         \o " (" \o ToString(e.statusCode[1]) \o ")"
                  /\ body = BodyWithMessage => command.stderr[2] = "rate limited"
                  /\ body = BodyWithStringError => command.stderr[2] = "quota exceeded"
                  /\ body = BodyWithBareError => command.stderr[2] = "{\"code\":429}"
                  /\ body \in {BodyWithoutError, BodyJsonNull, BodyNotJson}
                       => command.stderr[2] = body
             /\ ~api =>
                  command.stderr = IF e.isError THEN <<e.name, e.message>>
                                   ELSE <<"Error", e.text>>)
  /\ [][command.handled # None => command' = command]_vars

\* The chat call of a command failed with an API error, which the command
\* handed to handleChatError.
C26_Witness ==
  /\ command.invoked = <<"get", "assertAvailable", "chat">>
  /\ command.handled = Some(asThrown(ApiCallError))
  /\ command.stderr = <<"AI_APICallError (429)", "rate limited">>
  /\ command.exitCode = Some(1)

====
